---- MODULE Spec2Model ----
(***************************************************************************)
(* Model of the shvcli namespace cache (shvcli/client.py: Node, SHVClient) *)
(* and of the scan built on top of it (shvcli/scan.py).                    *)
(*                                                                         *)
(* A path is the sequence of segments PurePosixPath(path).parts of a       *)
(* relative SHV path; the empty sequence is the root.  A Node is a record  *)
(* with the fields of client.Node; its child map `nodes` is a function     *)
(* from the cached child names to Nodes.                                   *)
(*                                                                         *)
(* Spec: the command handler's ls, dir and call, received signals and one  *)
(* probe coroutine interleave; the remote side answers arbitrarily.        *)
(* SpecScan: scan_nodes runs against a static remote tree whose calls may  *)
(* fail.                                                                   *)
(***************************************************************************)
EXTENDS Naturals, Integers, Sequences, FiniteSets, TLC

\* ---- bounds of the model ------------------------------------------------
MaxDepth == 2
\* RpcFile: the operations done on a file, its size and the longest write
MaxFileOps == 3
FileSize == 4
MaxData == 3
MaxSteps == 2
MaxFailures == 1
MaxRemoteDepth == 2
MaxScanDepth == 2
MaxRemoteSize == 4
\* the calls the other coroutines issue in a session
MaxOther == 1
\* the State objects constructed
MaxStates == 2
\* the StateVar objects constructed
MaxObjects == 8

\* ---- universes the inputs are drawn from --------------------------------
Names == {".app", "dev"}

\* the paths the operations are called with: the root, ".app" and the chain
\* dev, dev/dev, ... up to MaxDepth segments
RECURSIVE PathsUpTo(_)
PathsUpTo(n) ==
    IF n = 0 THEN {<<>>}
    ELSE IF n = 1 THEN {<<>>, <<".app">>, <<"dev">>}
    ELSE LET shorter == PathsUpTo(n - 1)
             longest == {q \in shorter : Len(q) = n - 1 /\ q[1] = "dev"}
         IN  shorter \cup {Append(p, "dev") : p \in longest}

Paths == PathsUpTo(MaxDepth)

\* Python's None (a record, so that it compares with Nodes and descriptors)
None == [none |-> TRUE]

\* RpcMethodDesc values: name and flags
stdls == [name |-> "ls", flags |-> {}]
stddir == [name |-> "dir", flags |-> {}]
DescGet == [name |-> "get", flags |-> {"GETTER"}]
DescChng == [name |-> "chng", flags |-> {"NOT_CALLABLE"}]
Descs == {stdls, stddir, DescGet, DescChng}

\* what the remote side can answer to dir: descriptors with distinct names; a
\* conforming node lists both built-ins, a non-conforming one neither; the
\* node has the property method and its signal, or neither
DirResults ==
    {r \in SUBSET Descs : /\ (stdls \in r) <=> (stddir \in r)
                          /\ (DescGet \in r) <=> (DescChng \in r)}
\* what the remote side can answer to ls
LsResults == SUBSET Names
\* methods called through SHVClient.call
CallMethods == {"get"}
\* msg.source of the received signals
SignalSources == {"chng"}
\* RpcError raised by the transport: the distinguished RpcMethodNotFoundError
\* and any other RpcError
RpcErrors == {"RpcMethodNotFoundError", "RpcError"}

\* ---- client.Node ---------------------------------------------------------
EmptyMap == [x \in {} |-> None]

NewNode ==
    [nodes |-> EmptyMap,
     methods |-> [m \in {"ls", "dir"} |-> IF m = "ls" THEN stdls ELSE stddir],
     nodes_probed |-> FALSE,
     methods_probed |-> FALSE]

RECURSIVE get_node(_, _)
get_node(node, path) ==
    IF path = <<>> THEN node
    ELSE IF Head(path) \notin DOMAIN node.nodes THEN None
    ELSE get_node(node.nodes[Head(path)], Tail(path))

RECURSIVE valid_path(_, _)
valid_path(node, path) ==
    IF path = <<>> THEN node
    ELSE LET n == Head(path)
             child == IF n \in DOMAIN node.nodes THEN node.nodes[n] ELSE NewNode
         IN  [node EXCEPT !.nodes =
                 [k \in DOMAIN node.nodes \cup {n} |->
                     IF k = n THEN valid_path(child, Tail(path))
                     ELSE node.nodes[k]]]

\* a drop that removes the child the path starts with
invalid_path_top(node, path) ==
    IF path = <<>> \/ Head(path) \notin DOMAIN node.nodes THEN node
    ELSE [node EXCEPT !.nodes = [k \in DOMAIN node.nodes \ {Head(path)} |-> node.nodes[k]]]

RECURSIVE invalid_path(_, _)
invalid_path(node, path) ==
    IF path = <<>> THEN node
    ELSE LET n == Head(path)
         IN  IF n \notin DOMAIN node.nodes THEN node
             ELSE IF Len(path) = 1
                  THEN [node EXCEPT !.nodes =
                           [k \in DOMAIN node.nodes \ {n} |-> node.nodes[k]]]
                  ELSE [node EXCEPT !.nodes[n] = invalid_path(@, Tail(path))]

get_method(node, path, method) ==
    LET nd == get_node(node, path)
    IN  IF nd # None /\ method \in DOMAIN nd.methods THEN nd.methods[method]
        ELSE None

\* the in-place assignment to fields of the node that valid_path returned
RECURSIVE SetNode(_, _, _)
SetNode(node, path, new) ==
    IF path = <<>> THEN new
    ELSE [node EXCEPT !.nodes[Head(path)] = SetNode(@, Tail(path), new)]

\* dict.setdefault(method, None) on a method table
setdefault(methods, method) ==
    IF method \in DOMAIN methods THEN methods
    ELSE [k \in DOMAIN methods \cup {method} |->
             IF k = method THEN None ELSE methods[k]]

\* ---- SHVClient.ls / dir / call / _message: effect on the tree ------------
\* ls, lines 157-159: the listing succeeded with the names res
\* variant: the returned names are merged into the children already cached
ls_ok_merge(t, path, res) ==
    LET t1 == valid_path(t, path)
        node == get_node(t1, path)
        new == [node EXCEPT
                   !.nodes = [k \in res \cup DOMAIN node.nodes |->
                                 IF k \in DOMAIN node.nodes THEN node.nodes[k]
                                 ELSE NewNode],
                   !.nodes_probed = TRUE]
    IN  SetNode(t1, path, new)

\* variant: every returned name gets a new Node
ls_ok_fresh(t, path, res) ==
    LET t1 == valid_path(t, path)
        node == get_node(t1, path)
        new == [node EXCEPT !.nodes = [k \in res |-> NewNode],
                            !.nodes_probed = TRUE]
    IN  SetNode(t1, path, new)

\* variant: the flag is set only by a listing that confirms the cached children
ls_ok_confirm(t, path, res) ==
    LET t1 == valid_path(t, path)
        node == get_node(t1, path)
        new == [node EXCEPT
                   !.nodes = [k \in res |->
                                 IF k \in DOMAIN node.nodes THEN node.nodes[k]
                                 ELSE NewNode],
                   !.nodes_probed = (DOMAIN node.nodes = res)]
    IN  SetNode(t1, path, new)

\* variant: the listing updates only a node that is cached already
ls_ok_lookup(t, path, res) ==
    IF get_node(t, path) = None THEN t
    ELSE LET node == get_node(t, path)
             new == [node EXCEPT
                        !.nodes = [k \in res |->
                                      IF k \in DOMAIN node.nodes THEN node.nodes[k]
                                      ELSE NewNode],
                        !.nodes_probed = TRUE]
         IN  SetNode(t, path, new)

ls_ok(t, path, res) ==
    LET t1 == valid_path(t, path)
        node == get_node(t1, path)
        new == [node EXCEPT
                   !.nodes = [k \in res |->
                                 IF k \in DOMAIN node.nodes THEN node.nodes[k]
                                 ELSE NewNode],
                   !.nodes_probed = TRUE]
    IN  SetNode(t1, path, new)

\* ls and dir, except RpcError: invalid_path(path), then raise
\* variant: the failure leaves the tree alone
ls_fail_keep(t, path) == t

ls_fail(t, path) == invalid_path(t, path)

\* dir, lines 171-175: the listing succeeded with the descriptors res
\* variant: the descriptors flagged NOT_CALLABLE are recorded as well
dir_ok_all(t, path, res) ==
    LET t1 == valid_path(t, path)
        node == get_node(t1, path)
        new == [node EXCEPT
                   !.methods = [n \in {d.name : d \in res} |->
                                   CHOOSE d \in res : d.name = n],
                   !.methods_probed = TRUE]
    IN  SetNode(t1, path, new)

\* variant: the built-in methods stay in the table whatever was listed
dir_ok_builtins(t, path, res) ==
    LET t1 == valid_path(t, path)
        node == get_node(t1, path)
        callable == {d \in res : "NOT_CALLABLE" \notin d.flags} \cup {stdls, stddir}
        new == [node EXCEPT
                   !.methods = [n \in {d.name : d \in callable} |->
                                   CHOOSE d \in callable : d.name = n],
                   !.methods_probed = TRUE]
    IN  SetNode(t1, path, new)

\* variant: the flag is left for a later step
dir_ok_unflagged(t, path, res) ==
    LET t1 == valid_path(t, path)
        node == get_node(t1, path)
        callable == {d \in res : "NOT_CALLABLE" \notin d.flags}
        new == [node EXCEPT
                   !.methods = [n \in {d.name : d \in callable} |->
                                   CHOOSE d \in callable : d.name = n]]
    IN  SetNode(t1, path, new)

dir_ok(t, path, res) ==
    LET t1 == valid_path(t, path)
        node == get_node(t1, path)
        callable == {d \in res : "NOT_CALLABLE" \notin d.flags}
        new == [node EXCEPT
                   !.methods = [n \in {d.name : d \in callable} |->
                                   CHOOSE d \in callable : d.name = n],
                   !.methods_probed = TRUE]
    IN  SetNode(t1, path, new)

\* a failed dir that takes the path for an existing one
dir_fail_valid(t, path) == valid_path(t, path)

dir_fail(t, path) == invalid_path(t, path)

\* tree.valid_path(path).methods.setdefault(method, None)
\* variant: methods[method] = None instead of setdefault
record_method_reset(t, path, method) ==
    LET t1 == valid_path(t, path)
        node == get_node(t1, path)
    IN  SetNode(t1, path,
            [node EXCEPT !.methods =
                [k \in DOMAIN node.methods \cup {method} |->
                    IF k = method THEN None ELSE node.methods[k]]])

record_method(t, path, method) ==
    LET t1 == valid_path(t, path)
        node == get_node(t1, path)
    IN  SetNode(t1, path, [node EXCEPT !.methods = setdefault(@, method)])

\* call, lines 190-198; outcome is "ok" or the RpcError raised
\* variant: RpcMethodNotFoundError is handled like any other RpcError
call_effect_always(t, path, method, outcome) ==
    record_method(t, path, method)

\* a call that takes method-not-found as the confirmation of the path
call_effect_confirm(t, path, method, outcome) ==
    IF outcome = "RpcMethodNotFoundError" THEN valid_path(t, path)
    ELSE record_method(t, path, method)

call_effect(t, path, method, outcome) ==
    IF outcome = "RpcMethodNotFoundError" THEN t
    ELSE record_method(t, path, method)

\* ---- state ---------------------------------------------------------------
VARIABLES
    tree,     \* SHVClient.tree, the root Node
    remote,   \* the remote side: AnyRemote (answers are arbitrary) or the set of
              \* the paths of a static remote tree
    failures, \* number of calls the static remote side failed although the
              \* path exists
    steps,    \* number of completed remote calls and received signals
    last,     \* the wrapper call that completed last and what its caller got
    ppc,      \* probe: position of the coroutine
    ppath,    \* probe: its path argument
    pcaller,  \* probe: who awaits it
    pheld,    \* probe: what its local `node` refers to
    pnode,    \* probe: value of `node` once that object left the tree
    pcalls,   \* probe: the remote calls it issued so far, in order
    pouts,    \* probe: how the calls that completed ended, in order
    pstart,   \* probe: what get_node(path) gave at invocation
    pret,     \* probe: how it ended
    spc,      \* scan: position of the coroutine
    sargs,    \* scan: its arguments path and depth
    sdepth,   \* scan: depth, extended by the depth of path
    pths,     \* scan: the list of paths still to probe
    spth,     \* scan: the path popped last
    total,    \* scan: pbcnt.total
    completed,\* scan: number of pbcnt.item_completed() calls
    pb,       \* scan: the ProgressBar context
    sprobed,  \* scan: the paths it probed so far, in order
    valid,    \* path_is_valid: the call that returned last and what it gave
    loaded,   \* persistence: what loading the dump of the tree gave last
    cload,    \* persistence: the cache file loaded last and how the load ended
    cpend,    \* concurrency: the wrapper calls of other coroutines in flight
    ccount,   \* concurrency: number of calls the other coroutines issued
    cancelled,\* concurrency: where the cancelled probe stood, and the tree then
    heap,     \* state.py: the StateVar objects constructed so far, by identity
    states,   \* state.py: the State dicts constructed so far
    refs,     \* state.py: what the last lookup of each consumer returned
    made,     \* state.py: the Tree each State got in its constructor
    url,      \* url.py: Url.url, the URL set last
    cpath,    \* url.py: the URL cache_path was computed for last, and the result
    listed,   \* the names the last successful ls of each path returned
    vinput,   \* valid.py: the line to validate, State.path and the raw option
    vresult,  \* valid.py: what validate gave for it
    blob,     \* tree.py, client.py: the persisted node handed to the loaders
    drop,     \* Node.invalid_path: its argument and the tree it was called on
    files,    \* file.py: the RpcFile objects, a buffered one and one with Flag(0)
    remotes,  \* file.py: the content of the remote file each of them works on
    fstat,    \* file.py: page_size and max_write the remote file reports
    fhist,    \* file.py: the operations done on both objects, in order
    eri,      \* cliitems.py: the RI given to extend_ri, the prefix, the result
    rel,      \* path.py: two paths, and what is_relative_to and relative_to gave
    opts,     \* options.py: _value of each boolean option that has one
    loglevel, \* logging.root.level
    oset,     \* option.py: the last set or rset of an option
    comp      \* complet.py: how far the completion of the line is, its result

vars == <<tree, remote, failures, steps, last,
          ppc, ppath, pcaller, pheld, pnode, pcalls, pouts, pstart, pret,
          spc, sargs, sdepth, pths, spth, total, completed, pb, sprobed,
          valid, loaded, cload, cpend, ccount, cancelled,
          heap, states, refs, made, url, cpath, listed, vinput, vresult,
          blob, drop, files, remotes, fstat, fhist, eri,
          rel, opts, loglevel, oset, comp>>
svars == <<spc, sargs, sdepth, pths, spth, total, completed, pb, sprobed>>
\* the variables of the operations outside the probe and the scan
\* the variables of the coroutines running beside the probe
cvars == <<cpend, ccount, cancelled>>
\* the registry of the state variables
stvars == <<heap, states, refs, made>>
\* the variables outside the tree and its coroutines
\* the URL of the connection
uvars == <<url, cpath>>
\* the validator
vvars == <<vinput, vresult>>
\* the inputs of the functions applied on their own
\* the RpcFile objects and their remote files
fvars == <<files, remotes, fstat, fhist>>
\* the functions applied on their own
\* the options
optvars == <<opts, loglevel, oset>>
avars == <<eri, rel, optvars, comp>>
xvars == <<blob, drop, fvars, avars>>
nvars == <<stvars, uvars, listed, vvars, xvars>>
ovars == <<valid, loaded, cload, cvars, nvars>>
pvars == <<ppc, ppath, pcaller, pcalls, pouts, pstart, pret>>

AnyRemote == {<<"*">>}

NoCall == [op |-> "none", path |-> <<>>, method |-> "", outcome |-> "ok",
           res |-> {}, descs |-> {}, raised |-> "no", by |-> "none"]

\* a wrapper that swallows the error of the remote call
LastRecSwallowed(op, path, method, outcome, res, by) ==
    [op |-> op, path |-> path, method |-> method, outcome |-> outcome,
     res |-> IF op = "dir" THEN {} ELSE res,
     descs |-> IF op = "dir" THEN res ELSE {},
     raised |-> "no", by |-> by]

\* what the caller of a wrapper gets: the names ls returned (res), the
\* descriptors dir returned (descs), or the exception the wrapper caught and
\* raises again (raise exc)
LastRec(op, path, method, outcome, res, by) ==
    [op |-> op, path |-> path, method |-> method, outcome |-> outcome,
     res |-> IF op = "dir" THEN {} ELSE res,
     descs |-> IF op = "dir" THEN res ELSE {},
     raised |-> IF outcome = "ok" THEN "no" ELSE outcome, by |-> by]

\* the local variable `node` of probe refers to a Node object; the object stays
\* the one cached at ppath until an operation removes it from the tree
HeldVal ==
    IF pheld = "none" THEN None
    ELSE IF pheld = "attached" THEN get_node(tree, ppath)
    ELSE pnode

Track(newtree) ==
    IF pheld = "attached" /\ get_node(newtree, ppath) = None
    THEN pheld' = "detached" /\ pnode' = get_node(tree, ppath)
    ELSE UNCHANGED <<pheld, pnode>>

\* ---- the remote side -----------------------------------------------------
\* the step bound applies while the remote side answers arbitrarily
Budget == remote # AnyRemote \/ steps < MaxSteps

LsAnswers(path) ==
    IF remote = AnyRemote THEN LsResults
    ELSE IF path \in remote
         THEN {{n \in Names : Append(path, n) \in remote}}
         ELSE {}

DirAnswers(path) ==
    IF remote = AnyRemote THEN DirResults
    ELSE IF path \in remote THEN {{stdls, stddir}} ELSE {}

\* the errors ls and dir on path can end with (both wrappers catch RpcError,
\* whatever its subclass)
Failing(path) ==
    IF remote = AnyRemote THEN {"RpcError"}
    ELSE IF path \notin remote THEN {"RpcMethodNotFoundError"}
    ELSE IF failures < MaxFailures THEN {"RpcError"}
    ELSE {}

Failed(path) ==
    IF remote # AnyRemote /\ path \in remote THEN failures' = failures + 1
    ELSE UNCHANGED failures

InitProbe ==
    /\ ppc = "idle"
    /\ ppath = <<>>
    /\ pcaller = "none"
    /\ pheld = "none"
    /\ pnode = None
    /\ pcalls = <<>>
    /\ pouts = <<>>
    /\ pstart = None
    /\ pret = "no"

InitScanVars ==
    /\ spc = "idle"
    /\ sargs = None
    /\ sdepth = 0
    /\ pths = <<>>
    /\ spth = <<>>
    /\ total = 0
    /\ completed = 0
    /\ pb = "none"
    /\ sprobed = <<>>

\* no path_is_valid has returned yet
NoValid == [arg |-> <<>>, ret |-> TRUE, called |-> FALSE, ls |-> NoCall, at |-> 0,
            known |-> None, done |-> FALSE]

\* nothing was dumped or loaded yet
NoLoaded == [done |-> FALSE, tree0 |-> NewNode, node |-> NewNode, raised |-> "no"]
NoCacheLoad == [done |-> FALSE, file |-> [kind |-> "nofile"], raised |-> "no"]

\* no probe was cancelled yet
NoCancel == [at |-> "no", path |-> <<>>, before |-> NewNode, steps |-> 0]

InitConc ==
    /\ cpend = {}
    /\ ccount = 0
    /\ cancelled = NoCancel

\* the components that look the tree up: the validator (valid.py 51) and the
\* printing of ls results (lsdir.py 72)
Consumers == {"validator", "lsdir"}

\* a consumer that did not look anything up yet
NoRef == [state |-> 0, obj |-> 0, cls |-> "none"]

\* no State was constructed yet
InitState ==
    /\ heap = <<>>
    /\ states = <<>>
    /\ refs = [c \in Consumers |-> NoRef]
    /\ made = <<>>

\* RpcUrlEx(location, ...): a text is the sequence of its characters, a run of
\* word characters taken as one
RpcUrlEx(location, port, protocol, username, password, token) ==
    [location |-> location, port |-> port, protocol |-> protocol,
     username |-> username, password |-> password, token |-> token]

\* url.py 59: RpcUrlEx("localhost"), all else at its default
InitUrl ==
    /\ url = RpcUrlEx(<<"localhost">>, <<"3755">>, "tcp", <<>>, <<>>, <<>>)
    /\ cpath = [done |-> FALSE, url |-> url, path |-> <<>>]

\* nothing to validate yet: the empty line at the root
NoInput == [line |-> <<>>, prefix |-> <<>>, raw |-> FALSE]
NoResult == [done |-> FALSE, message |-> "ok"]

\* no function was applied on its own
NoDrop == [path |-> <<>>, before |-> NewNode, done |-> FALSE]

\* file.py 152-168: RpcFile(client, path, flags)
RpcFile(flags) ==
    [flags |-> flags, offset |-> 0, read_offset |-> 0, read_buffer |-> <<>>,
     write_offset |-> 0, write_buffer |-> <<>>]

\* Flag.BUFFERED, line 148
BUFFERED == {"R_BUFFERED", "W_BUFFERED"}

\* no file is open: both objects fresh on an empty file
InitFile ==
    /\ files = [buf |-> RpcFile(BUFFERED), plain |-> RpcFile({})]
    /\ remotes = [buf |-> <<>>, plain |-> <<>>]
    /\ fstat = [page_size |-> 1, max_write |-> 0]
    /\ fhist = <<>>

\* path_prefix of extend_ri: None, or the parts of a SHVPath
NoPrefix == [given |-> FALSE, parts |-> <<>>]
Prefix(parts) == [given |-> TRUE, parts |-> parts]

\* extend_ri was not called yet
NoRi == [ri |-> <<>>, path_prefix |-> NoPrefix, out |-> <<>>, done |-> FALSE]

\* what the specifications that apply one function start with for the others
\* no two paths were compared yet
NoRel == [self |-> <<>>, other |-> <<>>, is_relative_to |-> TRUE,
          relative_to |-> [raised |-> "no", parts |-> <<>>], done |-> FALSE]

\* logging.DEBUG and logging.WARNING, options.py 78
DEBUG == 10
WARNING == 30

\* the boolean options that keep their value in _value (options.py 14-66,
\* 84-96), with the value __init__ gives it
ValueOptions ==
    [vimode |-> FALSE, autoget |-> TRUE, autoprobe |-> TRUE, raw |-> FALSE,
     callduration |-> FALSE]

\* no option was set yet
NoSet == [option |-> "none", alias |-> "", value |-> "", rset |-> FALSE,
          raised |-> "no", done |-> FALSE]

\* no line was completed yet
NoComp == [phase |-> "none", auto |-> FALSE, result |-> {}]

\* State.__init__ constructs every option; the root logger is at WARNING
InitOptions ==
    /\ opts = ValueOptions
    /\ loglevel = WARNING
    /\ oset = NoSet

InitApplied ==
    /\ eri = NoRi
    /\ rel = NoRel
    /\ InitOptions
    /\ comp = NoComp

InitExtra ==
    /\ blob = [kind |-> "null"]
    /\ drop = NoDrop
    /\ InitFile
    /\ InitApplied

InitOther ==
    /\ valid = NoValid
    /\ loaded = NoLoaded
    /\ cload = NoCacheLoad
    /\ InitConc
    /\ InitState
    /\ InitUrl
    /\ listed = [p \in {} |-> {}]
    /\ vinput = NoInput
    /\ vresult = NoResult
    /\ InitExtra

Init ==
    /\ tree = valid_path(NewNode, <<".app">>)
    /\ remote = AnyRemote
    /\ failures = 0
    /\ steps = 0
    /\ last = NoCall
    /\ InitProbe
    /\ InitScanVars
    /\ InitOther

\* ---- the wrapped primitives called by the command handler ---------------
Ls(path) ==
    /\ Budget
    /\ \/ \E res \in LsAnswers(path) :
            /\ tree' = ls_ok(tree, path, res)
            /\ last' = LastRec("ls", path, "", "ok", res, "user")
            /\ UNCHANGED failures
       \/ \E err \in Failing(path) :
            /\ tree' = ls_fail(tree, path)
            /\ last' = LastRec("ls", path, "", err, {}, "user")
            /\ Failed(path)
    /\ steps' = steps + 1
    /\ Track(tree')
    /\ UNCHANGED <<remote, pvars, svars>>
    /\ UNCHANGED ovars

Dir(path) ==
    /\ Budget
    /\ \/ \E res \in DirAnswers(path) :
            /\ tree' = dir_ok(tree, path, res)
            /\ last' = LastRec("dir", path, "", "ok", res, "user")
            /\ UNCHANGED failures
       \/ \E err \in Failing(path) :
            /\ tree' = dir_fail(tree, path)
            /\ last' = LastRec("dir", path, "", err, {}, "user")
            /\ Failed(path)
    /\ steps' = steps + 1
    /\ Track(tree')
    /\ UNCHANGED <<remote, pvars, svars>>
    /\ UNCHANGED ovars

Call(path, method) ==
    /\ Budget
    /\ remote = AnyRemote
    /\ \E outcome \in {"ok"} \cup RpcErrors :
        /\ tree' = call_effect(tree, path, method, outcome)
        /\ last' = LastRec("call", path, method, outcome, {}, "user")
    /\ steps' = steps + 1
    /\ Track(tree')
    /\ UNCHANGED <<remote, failures, pvars, svars>>
    /\ UNCHANGED ovars

\* _message, lines 144-145: a signal was received
Message(path, source) ==
    /\ Budget
    /\ remote = AnyRemote
    /\ tree' = record_method(tree, path, source)
    /\ last' = LastRec("signal", path, source, "ok", {}, "remote")
    /\ steps' = steps + 1
    /\ Track(tree')
    /\ UNCHANGED <<remote, failures, pvars, svars>>
    /\ UNCHANGED ovars

\* ---- SHVClient.probe -----------------------------------------------------
\* variant: ls is awaited whatever node.nodes_probed says
ProbeAfterDirAlways(node, calls) ==
    /\ ppc' = "ls2"
    /\ pcalls' = Append(calls, <<"ls", ppath'>>)
    /\ pret' = "no"

\* lines 210-214: node.nodes_probed is read on the held object; ls or return
ProbeAfterDir(node, calls) ==
    IF ~node.nodes_probed
    THEN /\ ppc' = "ls2"
         /\ pcalls' = Append(calls, <<"ls", ppath'>>)
         /\ pret' = "no"
    ELSE /\ ppc' = "done"
         /\ pcalls' = calls
         /\ pret' = "returned"

\* variant: dir is awaited when node.nodes_probed is false
ProbeAfterNodeSwapped(node, calls) ==
    IF node = None
    THEN /\ ppc' = "done"
         /\ pcalls' = calls
         /\ pret' = "AssertionError"
    ELSE IF ~node.nodes_probed
    THEN /\ ppc' = "dir"
         /\ pcalls' = Append(calls, <<"dir", ppath'>>)
         /\ pret' = "no"
    ELSE ProbeAfterDir(node, calls)

\* lines 207-209: assert, then node.methods_probed is read; dir or go on
ProbeAfterNode(node, calls) ==
    IF node = None
    THEN /\ ppc' = "done"
         /\ pcalls' = calls
         /\ pret' = "AssertionError"
    ELSE IF ~node.methods_probed
    THEN /\ ppc' = "dir"
         /\ pcalls' = Append(calls, <<"dir", ppath'>>)
         /\ pret' = "no"
    ELSE ProbeAfterDir(node, calls)

\* variant: the RpcError is not caught
ProbeExceptRaise ==
    /\ ppc' = "done"
    /\ pret' = "RpcError"
    /\ UNCHANGED pcalls

\* except (RpcError, ValueError): pass; return node
ProbeExcept ==
    /\ ppc' = "done"
    /\ pret' = "returned"
    /\ UNCHANGED pcalls

\* lines 203-205, up to the first await
ProbeStart(path, caller) ==
    /\ ppc = "idle"
    /\ ppath' = path
    /\ pcaller' = caller
    /\ pouts' = <<>>
    /\ LET node == get_node(tree, path)
       IN  /\ pstart' = IF node = None THEN None
                        ELSE [methods_probed |-> node.methods_probed,
                              nodes_probed |-> node.nodes_probed,
                              steps |-> steps]
           /\ pnode' = None
           /\ IF node = None
              THEN /\ pheld' = "none"
                   /\ ppc' = "ls1"
                   /\ pcalls' = <<<<"ls", path>>>>
                   /\ pret' = "no"
              ELSE /\ pheld' = "attached"
                   /\ ProbeAfterNode(node, <<>>)
    /\ UNCHANGED <<tree, remote, failures, steps, last>>
    /\ UNCHANGED ovars

\* line 205 completes: await self.ls(path), then lines 206-211
ProbeLs1 ==
    /\ ppc = "ls1"
    /\ Budget
    /\ steps' = steps + 1
    /\ UNCHANGED <<remote, ppath, pcaller, pstart, svars>>
    /\ \/ \E res \in LsAnswers(ppath) :
            /\ tree' = ls_ok(tree, ppath, res)
            /\ last' = LastRec("ls", ppath, "", "ok", res, "probe")
            /\ UNCHANGED failures
            /\ pouts' = Append(pouts, "ok")
            /\ pheld' = IF get_node(tree', ppath) = None THEN "none"
                        ELSE "attached"
            /\ pnode' = None
            /\ ProbeAfterNode(get_node(tree', ppath), pcalls)
       \/ \E err \in Failing(ppath) :
            /\ tree' = ls_fail(tree, ppath)
            /\ last' = LastRec("ls", ppath, "", err, {}, "probe")
            /\ Failed(ppath)
            /\ pouts' = Append(pouts, err)
            /\ Track(tree')
            /\ ProbeExcept
    /\ UNCHANGED ovars

\* line 209 completes: await self.dir(path), then lines 210-211
ProbeDir ==
    /\ ppc = "dir"
    /\ Budget
    /\ steps' = steps + 1
    /\ UNCHANGED <<remote, ppath, pcaller, pstart, svars>>
    /\ \/ \E res \in DirAnswers(ppath) :
            /\ tree' = dir_ok(tree, ppath, res)
            /\ last' = LastRec("dir", ppath, "", "ok", res, "probe")
            /\ UNCHANGED failures
            /\ pouts' = Append(pouts, "ok")
            /\ Track(tree')
            /\ ProbeAfterDir(HeldVal', pcalls)
       \/ \E err \in Failing(ppath) :
            /\ tree' = dir_fail(tree, ppath)
            /\ last' = LastRec("dir", ppath, "", err, {}, "probe")
            /\ Failed(ppath)
            /\ pouts' = Append(pouts, err)
            /\ Track(tree')
            /\ ProbeExcept
    /\ UNCHANGED ovars

\* line 211 completes: await self.ls(path), then return node
ProbeLs2 ==
    /\ ppc = "ls2"
    /\ Budget
    /\ steps' = steps + 1
    /\ UNCHANGED <<remote, ppath, pcaller, pstart, svars>>
    /\ \/ \E res \in LsAnswers(ppath) :
            /\ tree' = ls_ok(tree, ppath, res)
            /\ last' = LastRec("ls", ppath, "", "ok", res, "probe")
            /\ UNCHANGED failures
            /\ pouts' = Append(pouts, "ok")
            /\ Track(tree')
            /\ ppc' = "done"
            /\ pret' = "returned"
            /\ UNCHANGED pcalls
       \/ \E err \in Failing(ppath) :
            /\ tree' = ls_fail(tree, ppath)
            /\ last' = LastRec("ls", ppath, "", err, {}, "probe")
            /\ Failed(ppath)
            /\ pouts' = Append(pouts, err)
            /\ Track(tree')
            /\ ProbeExcept
    /\ UNCHANGED ovars

\* the completer that awaited the probe goes on (complet.py, lines 127-133)
ProbeDone ==
    /\ ppc = "done"
    /\ pcaller = "user"
    /\ ppc' = "idle"
    /\ ppath' = <<>>
    /\ pcaller' = "none"
    /\ pheld' = "none"
    /\ pnode' = None
    /\ pcalls' = <<>>
    /\ pouts' = <<>>
    /\ pstart' = None
    /\ pret' = "no"
    /\ UNCHANGED <<tree, remote, failures, steps, last, svars>>
    /\ UNCHANGED ovars

\* the completer starts a probe (complet.py, lines 126-130)
UserProbe(path) ==
    /\ spc = "idle"
    /\ ProbeStart(path, "user")
    /\ UNCHANGED svars

Next ==
    \/ \E path \in Paths : Ls(path)
    \/ \E path \in Paths : Dir(path)
    \/ \E path \in Paths, method \in CallMethods : Call(path, method)
    \/ \E path \in Paths, source \in SignalSources : Message(path, source)
    \/ \E path \in Paths : UserProbe(path)
    \/ ProbeLs1
    \/ ProbeDir
    \/ ProbeLs2
    \/ ProbeDone

Spec == Init /\ [][Next]_vars

\* ---- path_is_valid (client.py 216-228) -----------------------------------
\* a path string is the sequence of its names and separators
Sep == "/"

\* "/".join(path)
RECURSIVE Join(_)
Join(path) ==
    IF path = <<>> THEN <<>>
    ELSE IF Len(path) = 1 THEN path
    ELSE <<Head(path), Sep>> \o Join(Tail(path))

\* the strings path_is_valid is called with: each path as it is and wrapped
\* in separators
PathStrings == {Join(p) : p \in Paths} \cup {<<Sep>> \o Join(p) \o <<Sep>> : p \in Paths}

\* str.lstrip() of a line
RECURSIVE lstrip_space(_)
lstrip_space(str) ==
    IF str # <<>> /\ Head(str) \in {" ", "\t"} THEN lstrip_space(Tail(str)) ELSE str

\* str.lstrip("/") and str.strip("/")
RECURSIVE lstrip(_)
lstrip(str) ==
    IF str # <<>> /\ Head(str) = Sep THEN lstrip(Tail(str)) ELSE str

RECURSIVE strip(_)
strip(str) ==
    LET l == lstrip(str)
    IN  IF l # <<>> /\ l[Len(l)] = Sep THEN strip(SubSeq(l, 1, Len(l) - 1)) ELSE l

\* pth, name of lines 221-224: path.rsplit("/", maxsplit=1) or "", path
rsplit(str) ==
    IF \E i \in 1..Len(str) : str[i] = Sep
    THEN LET i == CHOOSE i \in 1..Len(str) :
                      str[i] = Sep /\ \A j \in (i + 1)..Len(str) : str[j] # Sep
         IN  <<SubSeq(str, 1, i - 1), SubSeq(str, i + 1, Len(str))>>
    ELSE <<<<>>, str>>

\* PurePosixPath(str).parts of a relative path string
Parts(str) == SelectSeq(str, LAMBDA t : t # Sep)

\* a result that takes a failed listing for a valid path
valid_result_open(name, outcome, res) ==
    outcome # "ok" \/ (name \in {<<n>> : n \in res})

\* lines 225-228: name in res, or False on RpcError
valid_result(name, outcome, res) ==
    outcome = "ok" /\ name \in {<<n>> : n \in res}

\* the children cached at pth when its child list is known, else None
KnownChildren(pth) ==
    LET node == get_node(tree, pth)
    IN  IF node # None /\ node.nodes_probed THEN [names |-> DOMAIN node.nodes] ELSE None

\* what a call of path_is_valid gave, and what the cache knew when it was made
ValidRec(arg, ret, called, ls, at, known) ==
    [arg |-> arg, ret |-> ret, called |-> called, ls |-> ls, at |-> at,
     known |-> known, done |-> TRUE]

\* path_is_valid that answers from the cached children of a probed parent
PathIsValidCached(arg) ==
    LET path == strip(arg)
        pth == Parts(rsplit(path)[1])
        name == rsplit(path)[2]
        node == get_node(tree, pth)
    IN  IF path = <<>>
        THEN /\ valid' = ValidRec(arg, TRUE, FALSE, NoCall, steps, None)
             /\ UNCHANGED <<tree, remote, failures, steps, last, pvars, pheld, pnode, svars>>
             /\ UNCHANGED <<loaded, cload, cvars, nvars>>
        ELSE IF node # None /\ node.nodes_probed
        THEN /\ valid' = ValidRec(arg, name \in {<<n>> : n \in DOMAIN node.nodes},
                                  FALSE, NoCall, steps, KnownChildren(pth))
             /\ UNCHANGED <<tree, remote, failures, steps, last, pvars, pheld, pnode, svars>>
             /\ UNCHANGED <<loaded, cload, cvars, nvars>>
        ELSE /\ Budget
             /\ \/ \E res \in LsAnswers(pth) :
                     /\ tree' = ls_ok(tree, pth, res)
                     /\ last' = LastRec("ls", pth, "", "ok", res, "path_is_valid")
                     /\ UNCHANGED failures
                \/ \E err \in Failing(pth) :
                     /\ tree' = ls_fail(tree, pth)
                     /\ last' = LastRec("ls", pth, "", err, {}, "path_is_valid")
                     /\ Failed(pth)
             /\ valid' = ValidRec(arg, valid_result(name, last'.outcome, last'.res),
                                  TRUE, last', steps + 1, KnownChildren(pth))
             /\ steps' = steps + 1
             /\ Track(tree')
             /\ UNCHANGED <<remote, pvars, svars>>
             /\ UNCHANGED <<loaded, cload, cvars, nvars>>

\* lines 216-228, with the ls it awaits
PathIsValid(arg) ==
    LET path == strip(arg)
        pth == Parts(rsplit(path)[1])
        name == rsplit(path)[2]
    IN  IF path = <<>>
        THEN /\ valid' = ValidRec(arg, TRUE, FALSE, NoCall, steps, None)
             /\ UNCHANGED <<tree, remote, failures, steps, last, pvars, pheld, pnode, svars>>
             /\ UNCHANGED <<loaded, cload, cvars, nvars>>
        ELSE /\ Budget
             /\ \/ \E res \in LsAnswers(pth) :
                     /\ tree' = ls_ok(tree, pth, res)
                     /\ last' = LastRec("ls", pth, "", "ok", res, "path_is_valid")
                     /\ UNCHANGED failures
                \/ \E err \in Failing(pth) :
                     /\ tree' = ls_fail(tree, pth)
                     /\ last' = LastRec("ls", pth, "", err, {}, "path_is_valid")
                     /\ Failed(pth)
             /\ valid' = ValidRec(arg, valid_result(name, last'.outcome, last'.res),
                                  TRUE, last', steps + 1, KnownChildren(pth))
             /\ steps' = steps + 1
             /\ Track(tree')
             /\ UNCHANGED <<remote, pvars, svars>>
             /\ UNCHANGED <<loaded, cload, cvars, nvars>>

\* the command handler calls the wrappers and path_is_valid (cli.py 59)
NextValid ==
    \/ \E path \in Paths : Ls(path)
    \/ \E path \in Paths : Dir(path)
    \/ \E arg \in PathStrings : PathIsValid(arg)

SpecValid == Init /\ [][NextValid]_vars

\* ---- scan_nodes (shvcli/scan.py) -----------------------------------------
\* path.count("/") of the path string
CountSlash(path) == IF path = <<>> THEN 0 ELSE Len(path) - 1

\* (pth.count("/") + 1 if pth else 0)
Level(pth) == IF pth # <<>> THEN CountSlash(pth) + 1 ELSE 0

\* the names of a dict in iteration order
RECURSIVE KeysOf(_)
KeysOf(S) ==
    IF S = {} THEN <<>>
    ELSE LET x == CHOOSE x \in S : TRUE IN <<x>> \o KeysOf(S \ {x})

\* all paths of at most n segments
RECURSIVE AllPathsUpTo(_)
AllPathsUpTo(n) ==
    IF n = 0 THEN {<<>>}
    ELSE LET shorter == AllPathsUpTo(n - 1)
         IN  shorter \cup {Append(p, x) : p \in shorter, x \in Names}

\* the static remote trees: the sets of paths closed under taking the parent
RemoteTrees ==
    {r \in SUBSET AllPathsUpTo(MaxRemoteDepth) :
        /\ <<>> \in r
        /\ \A p \in r : p # <<>> => SubSeq(p, 1, Len(p) - 1) \in r}

InitScan ==
    /\ tree = valid_path(NewNode, <<".app">>)
    /\ remote \in RemoteTrees
    /\ failures = 0
    /\ steps = 0
    /\ last = NoCall
    /\ InitProbe
    /\ InitScanVars
    /\ InitOther

\* lines 17-21
ScanStart(path, depth) ==
    /\ spc = "idle"
    /\ ppc = "idle"
    /\ sargs' = [path |-> path, depth |-> depth]
    /\ sdepth' = depth + CountSlash(path)
    /\ pths' = <<path>>
    /\ pb' = "open"
    /\ total' = 1
    /\ completed' = 0
    /\ spc' = "loop"
    /\ UNCHANGED <<spth, sprobed>>
    /\ UNCHANGED <<tree, remote, failures, steps, last>>
    /\ UNCHANGED <<pvars, pheld, pnode>>
    /\ UNCHANGED ovars

\* a loop that reads the last path of the list without removing it
ScanPopPeek ==
    /\ spc = "loop"
    /\ pths # <<>>
    /\ spth' = pths[Len(pths)]
    /\ pths' = pths
    /\ sprobed' = Append(sprobed, spth')
    /\ ProbeStart(spth', "scan")
    /\ spc' = "probing"
    /\ UNCHANGED <<sargs, sdepth, total, completed, pb>>

\* lines 22-25: pop a path and await the probe of it
ScanPop ==
    /\ spc = "loop"
    /\ pths # <<>>
    /\ spth' = pths[Len(pths)]
    /\ pths' = SubSeq(pths, 1, Len(pths) - 1)
    /\ sprobed' = Append(sprobed, spth')
    /\ ProbeStart(spth', "scan")
    /\ spc' = "probing"
    /\ UNCHANGED <<sargs, sdepth, total, completed, pb>>

\* a loop that extends the list without counting the new entries in total
ScanAfterProbeUncounted ==
    /\ spc = "probing"
    /\ ppc = "done"
    /\ pcaller = "scan"
    /\ IF pret # "returned"
       THEN /\ spc' = "raised"
            /\ pb' = "closed"
            /\ UNCHANGED <<pths, total, completed>>
       ELSE /\ spc' = "loop"
            /\ LET node == HeldVal
               IN  IF node # None /\ Level(spth) < sdepth
                   THEN /\ pths' = pths \o [i \in 1..Cardinality(DOMAIN node.nodes) |->
                                       Append(spth, KeysOf(DOMAIN node.nodes)[i])]
                        /\ total' = total
                   ELSE UNCHANGED <<pths, total>>
            /\ completed' = completed + 1
            /\ UNCHANGED pb
    /\ ppc' = "idle"
    /\ ppath' = <<>>
    /\ pcaller' = "none"
    /\ pheld' = "none"
    /\ pnode' = None
    /\ pcalls' = <<>>
    /\ pouts' = <<>>
    /\ pstart' = None
    /\ pret' = "no"
    /\ UNCHANGED <<sargs, sdepth, spth, sprobed>>
    /\ UNCHANGED <<tree, remote, failures, steps, last>>
    /\ UNCHANGED ovars

\* a scan that keeps the progress bar when the probe raises
ScanAfterProbeLeak ==
    /\ spc = "probing"
    /\ ppc = "done"
    /\ pcaller = "scan"
    /\ IF pret # "returned"
       THEN /\ spc' = "raised"
            /\ pb' = pb
            /\ UNCHANGED <<pths, total, completed>>
       ELSE /\ spc' = "loop"
            /\ LET node == HeldVal
               IN  IF node # None /\ Level(spth) < sdepth
                   THEN /\ pths' = pths \o [i \in 1..Cardinality(DOMAIN node.nodes) |->
                                       Append(spth, KeysOf(DOMAIN node.nodes)[i])]
                        /\ total' = total + Cardinality(DOMAIN node.nodes)
                   ELSE UNCHANGED <<pths, total>>
            /\ completed' = completed + 1
            /\ UNCHANGED pb
    /\ ppc' = "idle"
    /\ ppath' = <<>>
    /\ pcaller' = "none"
    /\ pheld' = "none"
    /\ pnode' = None
    /\ pcalls' = <<>>
    /\ pouts' = <<>>
    /\ pstart' = None
    /\ pret' = "no"
    /\ UNCHANGED <<sargs, sdepth, spth, sprobed>>
    /\ UNCHANGED <<tree, remote, failures, steps, last>>
    /\ UNCHANGED ovars

\* lines 26-30: the probe returned (an exception of it leaves the with block)
ScanAfterProbe ==
    /\ spc = "probing"
    /\ ppc = "done"
    /\ pcaller = "scan"
    /\ IF pret # "returned"
       THEN /\ spc' = "raised"
            /\ pb' = "closed"
            /\ UNCHANGED <<pths, total, completed>>
       ELSE /\ spc' = "loop"
            /\ LET node == HeldVal
               IN  IF node # None /\ Level(spth) < sdepth
                   THEN /\ pths' = pths \o [i \in 1..Cardinality(DOMAIN node.nodes) |->
                                       Append(spth, KeysOf(DOMAIN node.nodes)[i])]
                        /\ total' = total + Cardinality(DOMAIN node.nodes)
                   ELSE UNCHANGED <<pths, total>>
            /\ completed' = completed + 1
            /\ UNCHANGED pb
    /\ ppc' = "idle"
    /\ ppath' = <<>>
    /\ pcaller' = "none"
    /\ pheld' = "none"
    /\ pnode' = None
    /\ pcalls' = <<>>
    /\ pouts' = <<>>
    /\ pstart' = None
    /\ pret' = "no"
    /\ UNCHANGED <<sargs, sdepth, spth, sprobed>>
    /\ UNCHANGED <<tree, remote, failures, steps, last>>
    /\ UNCHANGED ovars

\* line 22: the list is empty, the with block is left
ScanEnd ==
    /\ spc = "loop"
    /\ pths = <<>>
    /\ spc' = "done"
    /\ pb' = "closed"
    /\ UNCHANGED <<sargs, sdepth, pths, spth, total, completed, sprobed>>
    /\ UNCHANGED <<tree, remote, failures, steps, last>>
    /\ UNCHANGED <<pvars, pheld, pnode>>
    /\ UNCHANGED ovars

NextScan ==
    \/ \E path \in Paths, depth \in 0..MaxScanDepth : ScanStart(path, depth)
    \/ ScanPop
    \/ ProbeLs1
    \/ ProbeDir
    \/ ProbeLs2
    \/ ScanAfterProbe
    \/ ScanEnd

SpecScan == InitScan /\ [][NextScan]_vars

\* scan_nodes is sequential code, so each of its steps is taken once it is
\* enabled, and every remote call the probe awaits eventually returns; that
\* anybody invokes scan_nodes at all is not assumed
InitFairScan ==
    /\ InitScan
    /\ Cardinality(remote) <= MaxRemoteSize

FairSpecScan ==
    /\ InitFairScan
    /\ [][NextScan]_vars
    /\ WF_vars(ScanPop)
    /\ WF_vars(ProbeLs1)
    /\ WF_vars(ProbeDir)
    /\ WF_vars(ProbeLs2)
    /\ WF_vars(ScanAfterProbe)
    /\ WF_vars(ScanEnd)

\* ---- persistence (tree.py 85-126, state.py 77-96, client.py 93-123) -------
\* SHV values as far as loading tells them apart
SNull == [kind |-> "null"]
STrue == [kind |-> "true"]
SFalse == [kind |-> "false"]
\* a non-zero integer
SInt == [kind |-> "int"]
\* an empty list
SList == [kind |-> "list"]
\* a map with string keys
SMap(f) == [kind |-> "map", v |-> f]

\* shv.is_shvmap, isinstance(data, collections.abc.Mapping)
is_shvmap(data) == data.kind = "map"

SBool(b) == IF b THEN STrue ELSE SFalse

\* bool(data) of Python
bool(data) ==
    \/ data.kind \in {"true", "int"}
    \/ data.kind = "map" /\ DOMAIN data.v # {}

\* RpcDir.to_shv / RpcMethodDesc.to_shv: the descriptor as an integer-keyed map
to_shv(desc) == [kind |-> "imap", name |-> desc.name, flags |-> desc.flags]

\* whether from_shv accepts v (else it raises RpcInvalidParamError or ValueError)
from_shv_accepts(v) == v.kind = "imap" /\ {"name", "flags"} \subseteq DOMAIN v

\* RpcDir.from_shv / RpcMethodDesc.from_shv of an accepted v
from_shv(v) == [name |-> v.name, flags |-> v.flags]

\* a Node and the exception that ended the load ("no": it returned)
LoadRes(node, raised) == [node |-> node, raised |-> raised]

\* tree.py 85-94
RECURSIVE _dump(_)
_dump(self) ==
    SMap([nodes |-> SMap([n \in DOMAIN self.nodes |-> _dump(self.nodes[n])]),
          methods |-> SMap([n \in DOMAIN self.methods |->
                              IF self.methods[n] = None THEN SNull
                              ELSE to_shv(self.methods[n])]),
          nodes_probed |-> SBool(self.nodes_probed),
          methods_probed |-> SBool(self.methods_probed)])

\* tree.py 103-108: every entry of the map is stored, without a descriptor
\* when from_shv raises
load_methods(methods, m) ==
    [n \in DOMAIN methods \cup DOMAIN m |->
        IF n \in DOMAIN m
        THEN IF from_shv_accepts(m[n]) THEN from_shv(m[n]) ELSE None
        ELSE methods[n]]

\* tree.py 96-111; load_nodes is the loop of lines 100-102 over the keys
RECURSIVE _load(_, _), load_nodes(_, _, _)
load_nodes(self, m, keys) ==
    IF keys = <<>> THEN LoadRes(self, "no")
    ELSE LET n == Head(keys)
             r == _load(NewNode, m[n])
             self1 == [self EXCEPT !.nodes =
                          [k \in DOMAIN self.nodes \cup {n} |->
                              IF k = n THEN r.node ELSE self.nodes[k]]]
         IN  IF r.raised # "no" THEN LoadRes(self1, r.raised)
             ELSE load_nodes(self1, m, Tail(keys))

_load(self, data) ==
    IF ~is_shvmap(data) THEN LoadRes(self, "no")
    ELSE IF "nodes" \notin DOMAIN data.v THEN LoadRes(self, "KeyError")
    ELSE LET r1 == IF is_shvmap(data.v["nodes"])
                   THEN load_nodes(self, data.v["nodes"].v, KeysOf(DOMAIN data.v["nodes"].v))
                   ELSE LoadRes(self, "no")
         IN  IF r1.raised # "no" THEN r1
             ELSE IF "methods" \notin DOMAIN data.v THEN LoadRes(r1.node, "KeyError")
             ELSE LET n2 == IF is_shvmap(data.v["methods"])
                            THEN [r1.node EXCEPT
                                     !.methods = load_methods(@, data.v["methods"].v)]
                            ELSE r1.node
                  IN  IF "nodes_probed" \notin DOMAIN data.v THEN LoadRes(n2, "KeyError")
                      ELSE LET n3 == [n2 EXCEPT
                                         !.nodes_probed = bool(data.v["nodes_probed"])]
                           IN  IF "methods_probed" \notin DOMAIN data.v
                               THEN LoadRes(n3, "KeyError")
                               ELSE LoadRes([n3 EXCEPT !.methods_probed =
                                                bool(data.v["methods_probed"])], "no")

\* tree.py 120-122: Tree.cache_load
Tree_cache_load(self, data) ==
    IF "tree0" \notin DOMAIN data.v THEN LoadRes(self, "KeyError")
    ELSE _load(self, data.v["tree0"])

\* tree.py 124-126 within state.py 89-93: Tree.cache_dump into the empty dict
Tree_cache_dump(self) == SMap([tree0 |-> _dump(self)])

\* state.py 77-87: State.cache_load of a file that is missing, does not
\* unpack, or unpacks to the value file
State_cache_load(self, file) ==
    IF file.kind \in {"nofile", "garbage"} THEN LoadRes(self, "no")
    ELSE IF is_shvmap(file) THEN Tree_cache_load(self, file)
    ELSE LoadRes(self, "no")

\* client.py 93-102
RECURSIVE dump(_)
dump(self) ==
    SMap([nodes |-> SMap([n \in DOMAIN self.nodes |-> dump(self.nodes[n])]),
          methods |-> SMap([n \in DOMAIN self.methods |->
                              IF self.methods[n] = None THEN SNull
                              ELSE to_shv(self.methods[n])]),
          nodes_probed |-> SBool(self.nodes_probed),
          methods_probed |-> SBool(self.methods_probed)])

\* isinstance(v, collections.abc.Mapping)
is_mapping(v) == v.kind \in {"map", "imap"}

\* client.py 112-121: an entry that is not a mapping is skipped, one from_shv
\* raises on is suppressed
client_load_methods(methods, m) ==
    LET stored == {n \in DOMAIN m : is_mapping(m[n]) /\ from_shv_accepts(m[n])}
    IN  [n \in DOMAIN methods \cup stored |->
            IF n \in stored THEN from_shv(m[n]) ELSE methods[n]]

\* client.py 104-123
RECURSIVE load(_)
load(data) ==
    IF ~is_shvmap(data) THEN LoadRes(NewNode, "AssertionError")
    ELSE IF "nodes" \notin DOMAIN data.v THEN LoadRes(NewNode, "KeyError")
    ELSE LET kids == IF is_shvmap(data.v["nodes"])
                     THEN [n \in DOMAIN data.v["nodes"].v |-> load(data.v["nodes"].v[n])]
                     ELSE EmptyMap
             bad == {n \in DOMAIN kids : kids[n].raised # "no"}
             res1 == [NewNode EXCEPT !.nodes = [n \in DOMAIN kids |-> kids[n].node]]
         IN  IF bad # {} THEN LoadRes(NewNode, kids[CHOOSE n \in bad : TRUE].raised)
             ELSE IF "methods" \notin DOMAIN data.v THEN LoadRes(NewNode, "KeyError")
             ELSE LET res2 == IF is_shvmap(data.v["methods"])
                              THEN [res1 EXCEPT !.methods =
                                       client_load_methods(@, data.v["methods"].v)]
                              ELSE res1
                  IN  IF {"nodes_probed", "methods_probed"} \subseteq DOMAIN data.v
                      THEN LoadRes([res2 EXCEPT
                                       !.nodes_probed = bool(data.v["nodes_probed"]),
                                       !.methods_probed = bool(data.v["methods_probed"])],
                                   "no")
                      ELSE LoadRes(NewNode, "KeyError")

\* the tree is dumped and the dump is loaded into a fresh Tree (tree.py, through
\* the cache file of state.py) and by Node.load (client.py)
DumpLoad ==
    /\ LET r == State_cache_load(NewNode, Tree_cache_dump(tree))
           c == load(dump(tree))
       IN  loaded' = [done |-> TRUE, tree0 |-> r.node, node |-> c.node,
                      raised |-> IF r.raised # "no" THEN r.raised ELSE c.raised]
    /\ UNCHANGED <<tree, remote, failures, steps, last, pvars, pheld, pnode, svars>>
    /\ UNCHANGED <<valid, cload, cvars, nvars>>

NextDump ==
    \/ \E path \in Paths : Ls(path)
    \/ \E path \in Paths : Dir(path)
    \/ \E path \in Paths, method \in CallMethods : Call(path, method)
    \/ DumpLoad

SpecDump == Init /\ [][NextDump]_vars

\* the dump of a node, given the four values of its map
NodeBlob(nodes, methods, nodes_probed, methods_probed) ==
    SMap([nodes |-> nodes, methods |-> methods,
          nodes_probed |-> nodes_probed, methods_probed |-> methods_probed])

\* the dump of a probed node without children and with the method get
GoodNode ==
    NodeBlob(SMap(EmptyMap), SMap([get |-> to_shv(DescGet)]), STrue, STrue)

\* values found under the keys of a node map: well-formed ones, ones of the
\* wrong type and maps whose entries are of the wrong type or lack keys
NodesBlobs ==
    {SList, SMap(EmptyMap), SMap([dev |-> SInt]), SMap([dev |-> SMap(EmptyMap)]),
     SMap([dev |-> GoodNode])}
MethodsBlobs ==
    {SNull, SMap([get |-> SNull]), SMap([get |-> SList]), SMap([get |-> to_shv(DescGet)])}
FlagBlobs == {STrue, SNull, SInt}

\* what the file can hold under the key of the tree
TreeEntries ==
    {NodeBlob(n, m, f, SFalse) : n \in NodesBlobs, m \in MethodsBlobs, f \in FlagBlobs}
    \cup {SMap([k \in DOMAIN GoodNode.v \ {x} |-> GoodNode.v[k]]) : x \in DOMAIN GoodNode.v}
    \cup {SNull, SList}

\* the cache files: missing, not ChainPack, not a map, a map without the
\* tree, a map with the tree
CacheFiles ==
    {[kind |-> "nofile"], [kind |-> "garbage"], SNull, SList,
     SMap(EmptyMap), SMap([other |-> SInt])}
    \cup {SMap([tree0 |-> e]) : e \in TreeEntries}

\* state.py 77-87 on the session's tree, once in a session; an exception
\* leaves the tree as far as the load came
CacheLoad(file) ==
    /\ ~cload.done
    /\ LET r == State_cache_load(tree, file)
       IN  /\ tree' = r.node
           /\ cload' = [done |-> TRUE, file |-> file, raised |-> r.raised]
    /\ Track(tree')
    /\ UNCHANGED <<remote, failures, steps, last, pvars, svars>>
    /\ UNCHANGED <<valid, loaded, cvars, nvars>>

NextLoad ==
    \/ \E path \in Paths : Ls(path)
    \/ \E file \in CacheFiles : CacheLoad(file)

SpecLoad == Init /\ [][NextLoad]_vars

\* ---- coroutines running beside the probe (client.py 148-214) -------------
\* what a cancelled task gets thrown in at the await it is suspended at
CancelledError == "CancelledError"

\* a handler that catches every exception
IsRpcErrorAny(exc) == TRUE

\* isinstance(exc, RpcError): CancelledError derives from BaseException
IsRpcError(exc) == exc \in RpcErrors

\* ls, lines 151-155, and dir, lines 166-170: the exception exc comes out of
\* the awaited call of the base class
ls_except(t, path, exc) == IF IsRpcError(exc) THEN ls_fail(t, path) ELSE t

dir_except(t, path, exc) == IF IsRpcError(exc) THEN dir_fail(t, path) ELSE t

\* probe, line 212: except (RpcError, ValueError)
probe_catches(exc) == IsRpcError(exc) \/ exc = "ValueError"

\* the task awaiting the probe is cancelled while a call of the probe is in
\* flight: the exception passes the handler of the wrapper and the one of probe
ProbeCancel ==
    /\ ppc \in {"ls1", "dir", "ls2"}
    /\ cancelled.at = "no"
    /\ tree' = IF ppc = "dir" THEN dir_except(tree, ppath, CancelledError)
               ELSE ls_except(tree, ppath, CancelledError)
    /\ cancelled' = [at |-> ppc, path |-> ppath, before |-> tree, steps |-> steps]
    /\ IF probe_catches(CancelledError)
       THEN ProbeExcept
       ELSE /\ ppc' = "done"
            /\ pret' = CancelledError
            /\ UNCHANGED pcalls
    /\ Track(tree')
    /\ UNCHANGED <<remote, failures, steps, last, ppath, pcaller, pouts, pstart, svars>>
    /\ UNCHANGED <<valid, loaded, cload, cpend, ccount, nvars>>

\* the wrappers other coroutines call
OtherOps == {"ls", "dir", "call"}

PendingCall(op, path, method) == [op |-> op, path |-> path, method |-> method]

\* how a call of a method can end
CallAnswers(path) ==
    IF remote = AnyRemote \/ path \in remote THEN {"ok"} \cup RpcErrors
    ELSE {"RpcMethodNotFoundError"}

\* a coroutine enters ls, dir or call and is suspended at the await of the
\* call of the base class (lines 152, 167, 191): nothing ran before it
OtherIssue(op, path, method) ==
    /\ ccount < MaxOther
    /\ PendingCall(op, path, method) \notin cpend
    /\ cpend' = cpend \cup {PendingCall(op, path, method)}
    /\ ccount' = ccount + 1
    /\ UNCHANGED <<tree, remote, failures, steps, last, pvars, pheld, pnode, svars>>
    /\ UNCHANGED <<valid, loaded, cload, cancelled, nvars>>

\* the call c in flight returns and its coroutine runs to the end of the wrapper
OtherReturn(c) ==
    /\ c \in cpend
    /\ cpend' = cpend \ {c}
    /\ \/ /\ c.op = "ls"
          /\ \/ \E res \in LsAnswers(c.path) :
                  /\ tree' = ls_ok(tree, c.path, res)
                  /\ last' = LastRec("ls", c.path, "", "ok", res, "other")
                  /\ UNCHANGED failures
             \/ \E err \in Failing(c.path) :
                  /\ tree' = ls_except(tree, c.path, err)
                  /\ last' = LastRec("ls", c.path, "", err, {}, "other")
                  /\ Failed(c.path)
       \/ /\ c.op = "dir"
          /\ \/ \E res \in DirAnswers(c.path) :
                  /\ tree' = dir_ok(tree, c.path, res)
                  /\ last' = LastRec("dir", c.path, "", "ok", res, "other")
                  /\ UNCHANGED failures
             \/ \E err \in Failing(c.path) :
                  /\ tree' = dir_except(tree, c.path, err)
                  /\ last' = LastRec("dir", c.path, "", err, {}, "other")
                  /\ Failed(c.path)
       \/ /\ c.op = "call"
          /\ \E outcome \in CallAnswers(c.path) :
                  /\ tree' = call_effect(tree, c.path, c.method, outcome)
                  /\ last' = LastRec("call", c.path, c.method, outcome, {}, "other")
          /\ UNCHANGED failures
    /\ steps' = steps + 1
    /\ Track(tree')
    /\ UNCHANGED <<remote, pvars, svars>>
    /\ UNCHANGED <<valid, loaded, cload, ccount, cancelled, nvars>>

\* a probe of the completer with the calls of the other coroutines in between
NextConc ==
    \/ \E path \in Paths : UserProbe(path)
    \/ ProbeLs1
    \/ ProbeDir
    \/ ProbeLs2
    \/ \E op \in OtherOps, path \in Paths, method \in CallMethods :
          OtherIssue(op, path, IF op = "call" THEN method ELSE "")
    \/ \E c \in cpend : OtherReturn(c)

SpecConc == InitFairScan /\ [][NextConc]_vars

\* a scan or a probe of the completer that may get cancelled
NextCancel ==
    \/ \E path \in Paths, depth \in 0..MaxScanDepth : ScanStart(path, depth)
    \/ ScanPop
    \/ \E path \in Paths : UserProbe(path)
    \/ ProbeLs1
    \/ ProbeDir
    \/ ProbeLs2
    \/ ProbeCancel
    \/ ScanAfterProbe
    \/ ScanEnd

SpecCancel == InitFairScan /\ [][NextCancel]_vars

\* ---- the registry of the state variables (state.py) ----------------------
\* StateVar.variables: the subclasses, sorted by priority (all have priority 0,
\* so in the order of their definition)
variables == <<"Option", "Tree", "Afterconn", "Url">>

\* inspect.isabstract(cls): Option has abstract methods
isabstract(cls) == cls = "Option"

\* a dict without keys
EmptyDict == [k \in {} |-> 0]

\* d[k] = v
DictSet(d, k, v) == [x \in DOMAIN d \cup {k} |-> IF x = k THEN v ELSE d[x]]

\* type.__call__: a new object, told apart from all others by its identity
Construct(hp, cls) == Append(hp, [cls |-> cls, node |-> NewNode])

\* a metaclass that constructs an object at every call
StateVarCallFresh(hp, st, cls) ==
    LET obj == Len(hp) + 1
    IN  [heap |-> Construct(hp, cls), state |-> DictSet(st, cls, obj), obj |-> obj]

\* StateVarMeta.__call__, lines 18-25: cls(state)
StateVarCall(hp, st, cls) ==
    IF cls \notin DOMAIN st
    THEN LET obj == Len(hp) + 1
         IN  [heap |-> Construct(hp, cls), state |-> DictSet(st, cls, obj), obj |-> obj]
    ELSE [heap |-> hp, state |-> st, obj |-> st[cls]]

\* State.__init__, lines 73-75, for the classes vs still to go
RECURSIVE State_init(_, _, _)
State_init(hp, st, vs) ==
    IF vs = <<>> THEN [heap |-> hp, state |-> st]
    ELSE IF isabstract(Head(vs)) THEN State_init(hp, st, Tail(vs))
    ELSE LET r == StateVarCall(hp, st, Head(vs))
         IN  State_init(r.heap, DictSet(r.state, Head(vs), r.obj), Tail(vs))

\* State()
NewState ==
    /\ Len(states) < MaxStates
    /\ LET r == State_init(heap, EmptyDict, variables)
       IN  /\ heap' = r.heap
           /\ states' = Append(states, r.state)
           /\ made' = Append(made, r.state["Tree"])
    /\ UNCHANGED refs
    /\ UNCHANGED <<tree, remote, failures, steps, last, pvars, pheld, pnode, svars>>
    /\ UNCHANGED <<valid, loaded, cload, cvars, uvars, listed, vvars, xvars>>

\* a consumer evaluates cls(state), e.g. Tree(self.client.state)
Lookup(c, sid, cls) ==
    /\ sid \in 1..Len(states)
    /\ Len(heap) <= MaxObjects
    /\ LET r == StateVarCall(heap, states[sid], cls)
       IN  /\ heap' = r.heap
           /\ states' = [states EXCEPT ![sid] = r.state]
           /\ refs' = [refs EXCEPT ![c] = [state |-> sid, obj |-> r.obj, cls |-> cls]]
    /\ UNCHANGED made
    /\ UNCHANGED <<tree, remote, failures, steps, last, pvars, pheld, pnode, svars>>
    /\ UNCHANGED <<valid, loaded, cload, cvars, uvars, listed, vvars, xvars>>

\* a consumer writes to the Tree it looked up (valid_path, tree.py 45-54)
Mutate(c, path) ==
    /\ refs[c].cls = "Tree"
    /\ heap' = [heap EXCEPT ![refs[c].obj].node = valid_path(@, path)]
    /\ UNCHANGED <<states, refs, made>>
    /\ UNCHANGED <<tree, remote, failures, steps, last, pvars, pheld, pnode, svars>>
    /\ UNCHANGED <<valid, loaded, cload, cvars, uvars, listed, vvars, xvars>>

NextState ==
    \/ NewState
    \/ \E c \in Consumers, sid \in 1..MaxStates :
          \E cls \in {v \in {variables[i] : i \in DOMAIN variables} : ~isabstract(v)} :
              Lookup(c, sid, cls)
    \/ \E c \in Consumers, path \in Paths : Mutate(c, path)

SpecState == Init /\ [][NextState]_vars

\* ---- the URL and the path of the cache file (url.py) ----------------------
\* the characters re.sub(r"[^\w_. -]", "_", ...) replaces
Special == {":", "/", "@", "?", "=", "&"}

Locations == {<<"localhost">>, <<"/", "run", "/", "s3cret">>}
Ports == {<<"3755">>, <<"3756">>}
Protocols == {"tcp", "unix"}
Usernames == {<<>>, <<"admin">>}
Passwords == {<<>>, <<"p", "@", "ss">>}
Tokens == {<<>>, <<"s3cret">>}

\* what RpcUrlEx.parse can give
Urls ==
    {RpcUrlEx(l, p, pr, u, pw, t) :
        l \in Locations, p \in Ports, pr \in Protocols, u \in Usernames,
        pw \in Passwords, t \in Tokens}

\* RpcUrl.to_url() of the library: scheme, user, location, port when it is not
\* the default one, and the options of the login that are set
to_url(u) ==
    <<u.protocol, ":", "/", "/">>
    \o (IF u.username # <<>> THEN u.username \o <<"@">> ELSE <<>>)
    \o u.location
    \o (IF u.port # <<"3755">> THEN <<":">> \o u.port ELSE <<>>)
    \o (IF u.password # <<>> THEN <<"?", "password", "=">> \o u.password ELSE <<>>)
    \o (IF u.token # <<>> THEN <<"&", "token", "=">> \o u.token ELSE <<>>)

\* re.sub(r"[^\w_. -]", "_", text)
re_sub(text) == [i \in DOMAIN text |-> IF text[i] \in Special THEN "_" ELSE text[i]]

\* the file name made from the URL as it is
cache_path_whole(u) == re_sub(to_url(u))

\* cache_path, lines 97-106: the file name under the cache directory
cache_path(u) ==
    re_sub(to_url(RpcUrlEx(u.location, u.port, u.protocol, u.username, <<>>, <<>>)))

\* Url.set, lines 86-93: the parsed URL; a unix location that is a character
\* device makes the protocol tty
UrlSet(u, ischr) ==
    /\ url' = IF u.protocol = "unix" /\ ischr THEN [u EXCEPT !.protocol = "tty"] ELSE u
    /\ UNCHANGED cpath
    /\ UNCHANGED <<tree, remote, failures, steps, last, pvars, pheld, pnode, svars>>
    /\ UNCHANGED <<valid, loaded, cload, cvars, stvars, listed, vvars, xvars>>

\* Url.cache_path()
CachePath ==
    /\ cpath' = [done |-> TRUE, url |-> url, path |-> cache_path(url)]
    /\ UNCHANGED url
    /\ UNCHANGED <<tree, remote, failures, steps, last, pvars, pheld, pnode, svars>>
    /\ UNCHANGED <<valid, loaded, cload, cvars, stvars, listed, vvars, xvars>>

NextUrl ==
    \/ \E u \in Urls, ischr \in BOOLEAN : UrlSet(u, ischr)
    \/ CachePath

SpecUrl == Init /\ [][NextUrl]_vars

\* ---- the wrappers and what the remote side listed (client.py 142-198) ----
\* the wrappers and the reception of a signal
SeenOps == {"ls", "dir", "call", "signal"}

\* variant: every recorded method keeps the node .app cached as well
record_seen_app(t, op, path, method, outcome) ==
    valid_path(IF op = "call" THEN call_effect(t, path, method, outcome)
               ELSE record_method(t, path, method), <<".app">>)

\* call, lines 190-198, and _message, lines 144-145
record_seen(t, op, path, method, outcome) ==
    IF op = "call" THEN call_effect(t, path, method, outcome)
    ELSE record_method(t, path, method)

\* one wrapper call or signal completes; listed keeps what ls returned
Seen(op, path, method) ==
    /\ Budget
    /\ remote = AnyRemote
    /\ \/ /\ op = "ls"
          /\ \/ \E res \in LsAnswers(path) :
                  /\ tree' = ls_ok(tree, path, res)
                  /\ last' = LastRec("ls", path, "", "ok", res, "user")
                  /\ listed' = [p \in DOMAIN listed \cup {path} |->
                                   IF p = path THEN res ELSE listed[p]]
             \/ \E err \in Failing(path) :
                  /\ tree' = ls_except(tree, path, err)
                  /\ last' = LastRec("ls", path, "", err, {}, "user")
                  /\ UNCHANGED listed
       \/ /\ op = "dir"
          /\ \/ \E res \in DirAnswers(path) :
                  /\ tree' = dir_ok(tree, path, res)
                  /\ last' = LastRec("dir", path, "", "ok", res, "user")
             \/ \E err \in Failing(path) :
                  /\ tree' = dir_except(tree, path, err)
                  /\ last' = LastRec("dir", path, "", err, {}, "user")
          /\ UNCHANGED listed
       \/ /\ op = "call"
          /\ \E outcome \in CallAnswers(path) :
                  /\ tree' = record_seen(tree, op, path, method, outcome)
                  /\ last' = LastRec("call", path, method, outcome, {}, "user")
          /\ UNCHANGED listed
       \/ /\ op = "signal"
          /\ tree' = record_seen(tree, op, path, method, "ok")
          /\ last' = LastRec("signal", path, method, "ok", {}, "remote")
          /\ UNCHANGED listed
    /\ steps' = steps + 1
    /\ Track(tree')
    /\ UNCHANGED <<remote, failures, pvars, svars>>
    /\ UNCHANGED <<valid, loaded, cload, cvars, stvars, uvars, vvars, xvars>>

NextSeen ==
    \E op \in SeenOps, path \in Paths :
        \E method \in (IF op = "call" THEN CallMethods
                       ELSE IF op = "signal" THEN SignalSources ELSE {""}) :
            Seen(op, path, method)

SpecSeen == Init /\ [][NextSeen]_vars

\* ---- the validator of the input line (valid.py, cliitems.py) --------------
\* a line is the sequence of its characters, a word taken as one
Space == " "
Tab == "\t"
Colon == ":"
Bang == "!"

\* str.partition(sep): the text before the first sep and the text after it
RECURSIVE partition(_, _)
partition(text, sep) ==
    IF text = <<>> THEN <<<<>>, <<>>>>
    ELSE IF Head(text) = sep THEN <<<<>>, Tail(text)>>
    ELSE LET r == partition(Tail(text), sep)
         IN  <<<<Head(text)>> \o r[1], r[2]>>

\* c in text
HasChar(text, c) == \E i \in DOMAIN text : text[i] = c

\* CliItems.ri, cliitems.py 21-23
items_ri(line) == partition(lstrip_space(line), Space)[1]

\* CliItems.path, cliitems.py 26-32, before the prefix is applied
items_path(line) ==
    LET ri == items_ri(line)
    IN  IF ~HasChar(ri, Colon) /\ ~HasChar(ri, Sep) THEN <<>>
        ELSE partition(ri, Colon)[1]

\* CliItems.method, cliitems.py 35-38
items_method(line) ==
    LET ri == items_ri(line)
    IN  IF ~HasChar(ri, Colon) /\ ~HasChar(ri, Sep) THEN ri
        ELSE partition(ri, Colon)[2]

\* CliItems.param, cliitems.py 41-43
items_param(line) ==
    LET l == lstrip_space(line)
    IN  IF HasChar(l, Space) THEN partition(l, Space)[2] ELSE <<>>

\* the registered builtin methods
Builtins == {<<"scan">>}

\* int(param) succeeds
IsInt(param) == param \in {<<"1">>, <<"3">>}

\* BuiltinScan.validate
BuiltinScan_validate(param) ==
    IF param # <<>> /\ ~IsInt(param) THEN "Parameter must be integer" ELSE "ok"

\* Cpon.unpack(param) raises for a text that is no CPON
IsCpon(param) == ~HasChar(param, "{")

\* a validator that takes every unknown segment for a missing path
missing_segment_strict(node) == "No such path"

\* valid.py 53-56: the segment is not among the children of node
missing_segment(node) == IF node.nodes_probed THEN "No such path" ELSE "ok"

\* valid.py 52-57: the node the path leads to, or the verdict on the first
\* segment that is not cached
RECURSIVE walk(_, _)
walk(node, parts) ==
    IF parts = <<>> THEN [node |-> node, message |-> "ok", found |-> TRUE]
    ELSE IF Head(parts) \notin DOMAIN node.nodes
    THEN [node |-> node, message |-> missing_segment(node), found |-> FALSE]
    ELSE walk(node.nodes[Head(parts)], Tail(parts))

\* CliValidator.validate, lines 20-63: "ok" or the message of the
\* ValidationError
validate(t, in) ==
    LET line == lstrip_space(in.line)
        method == items_method(in.line)
    IN  IF HasChar(line, Space)
        THEN IF method \in {<<"ls">>, <<"dir">>} /\ ~in.raw THEN "ok"
             ELSE IF method # <<>> /\ Head(method) = Bang /\ Tail(method) \in Builtins
             THEN BuiltinScan_validate(items_param(in.line))
             ELSE IF method # <<>>
             THEN IF HasChar(items_path(in.line), Tab) THEN "ValueError"
                  ELSE IF IsCpon(items_param(in.line)) THEN "ok"
                  ELSE "Invalid CPON"
             ELSE "No parameter expected"
        ELSE IF HasChar(items_path(in.line), Tab)
        THEN "Path can't have white character in it."
        ELSE LET w == walk(t, in.prefix \o Parts(items_path(in.line)))
             IN  IF ~w.found THEN w.message
                 ELSE IF method # <<>> /\ Head(method) = Bang
                 THEN IF Tail(method) \notin Builtins THEN "No such builtin method"
                      ELSE "ok"
                 ELSE IF /\ method # <<>>
                         /\ w.node.methods_probed
                         /\ ~(Len(method) = 1 /\ method[1] \in DOMAIN w.node.methods)
                 THEN "No such method"
                 ELSE "ok"

\* the lines typed: a method, a path with a method, a path, builtins, a path
\* with a tabulator, and lines with a parameter
Lines ==
    {<<>>, <<"get">>, <<"set">>, <<"dev", Colon, "get">>, <<"dev", Colon, "set">>,
     <<"dev", Colon>>, <<"dev", Sep, "dev", Colon, "get">>, <<"dev", Sep, "dev">>,
     <<".app", Colon, "ls">>, <<Space, "dev", Sep>>,
     <<Bang, "scan">>, <<Bang, "bogus">>, <<"dev", Colon, Bang, "bogus">>,
     <<"dev", Tab, Colon, "get">>, <<"dev", Tab, Colon, "get", Space, "1">>,
     <<"get", Space, "1">>, <<"get", Space, "{">>, <<"ls", Space, "x">>,
     <<Bang, "scan", Space, "dev">>, <<Bang, "scan", Space, "3">>,
     <<Colon, Space, "1">>}

\* State.path, set by the builtin cd
Prefixes0 == {<<>>, <<"dev">>}

\* the trees the session can have built when a line is validated: the initial
\* one, the ones after one completed ls, dir or call, and those after a
\* further dir
TreesAfterOne ==
    LET t0 == valid_path(NewNode, <<".app">>)
    IN  {t0}
        \cup {ls_ok(t0, p, r) : p \in Paths, r \in LsResults}
        \cup {dir_ok(t0, p, d) : p \in Paths, d \in DirResults}
        \cup {record_method(t0, p, m) : p \in Paths, m \in CallMethods}

ValidateTrees ==
    TreesAfterOne \cup {dir_ok(t, p, d) : t \in TreesAfterOne, p \in Paths, d \in DirResults}

InitValidate ==
    /\ tree \in ValidateTrees
    /\ remote = AnyRemote
    /\ failures = 0
    /\ steps = 0
    /\ last = NoCall
    /\ InitProbe
    /\ InitScanVars
    /\ valid = NoValid
    /\ loaded = NoLoaded
    /\ cload = NoCacheLoad
    /\ InitConc
    /\ InitState
    /\ InitUrl
    /\ listed = [p \in {} |-> {}]
    /\ vinput \in [line : Lines, prefix : Prefixes0, raw : BOOLEAN]
    /\ vresult = NoResult
    /\ InitExtra

\* prompt_toolkit calls validate for the line
Validate ==
    /\ ~vresult.done
    /\ vresult' = [done |-> TRUE, message |-> validate(tree, vinput)]
    /\ UNCHANGED vinput
    /\ UNCHANGED <<tree, remote, failures, steps, last, pvars, pheld, pnode, svars>>
    /\ UNCHANGED <<valid, loaded, cload, cvars, stvars, uvars, listed, xvars>>

NextValidate == Validate

SpecValidate == InitValidate /\ [][NextValidate]_vars

\* ---- a persisted node with malformed descriptors (tree.py, client.py) ----
\* what the methods map of a persisted node holds for a name: the descriptor,
\* nothing, a value of another type, a descriptor map without its keys
DescPayloads == {to_shv(DescGet), SNull, SList, [kind |-> "imap", name |-> "get"]}

\* the methods maps over the names get and chng
PersistedMethods ==
    {[n \in D |-> f[n]] : D \in SUBSET {"get", "chng"},
                           f \in [{"get", "chng"} -> DescPayloads]}

\* the persisted nodes: with or without a child, any flags
PersistedNodes ==
    {NodeBlob(SMap(kids), SMap(m), SBool(np), SBool(mp)) :
        kids \in {EmptyMap, [dev |-> GoodNode]}, m \in PersistedMethods,
        np \in BOOLEAN, mp \in BOOLEAN}

InitBlob ==
    /\ tree = valid_path(NewNode, <<".app">>)
    /\ remote = AnyRemote
    /\ failures = 0
    /\ steps = 0
    /\ last = NoCall
    /\ InitProbe
    /\ InitScanVars
    /\ valid = NoValid
    /\ loaded = NoLoaded
    /\ cload = NoCacheLoad
    /\ InitConc
    /\ InitState
    /\ InitUrl
    /\ listed = [p \in {} |-> {}]
    /\ vinput = NoInput
    /\ vresult = NoResult
    /\ blob \in PersistedNodes
    /\ drop = NoDrop
    /\ InitFile
    /\ InitApplied

\* the persisted node is loaded into a fresh Node by Node._load (tree.py
\* 96-111) and by Node.load (client.py 104-123)
LoadNode ==
    /\ ~loaded.done
    /\ LET r == _load(NewNode, blob)
           c == load(blob)
       IN  loaded' = [done |-> TRUE, tree0 |-> r.node, node |-> c.node,
                      raised |-> IF r.raised # "no" THEN r.raised ELSE c.raised]
    /\ UNCHANGED <<tree, remote, failures, steps, last, pvars, pheld, pnode, svars>>
    /\ UNCHANGED <<valid, cload, cvars, stvars, uvars, listed, vvars, drop, fvars, avars>>
    /\ UNCHANGED blob

NextBlob == LoadNode

SpecBlob == InitBlob /\ [][NextBlob]_vars

\* ---- Node.invalid_path applied on its own --------------------------------
\* the paths invalid_path is called with: every path of up to one segment
\* more than the operations cache
DropPaths == AllPathsUpTo(MaxDepth + 1)

InitDrop ==
    /\ tree \in ValidateTrees
    /\ remote = AnyRemote
    /\ failures = 0
    /\ steps = 0
    /\ last = NoCall
    /\ InitProbe
    /\ InitScanVars
    /\ valid = NoValid
    /\ loaded = NoLoaded
    /\ cload = NoCacheLoad
    /\ InitConc
    /\ InitState
    /\ InitUrl
    /\ listed = [p \in {} |-> {}]
    /\ vinput = NoInput
    /\ vresult = NoResult
    /\ blob = [kind |-> "null"]
    /\ drop \in [path : DropPaths, before : {NewNode}, done : {FALSE}]
    /\ InitFile
    /\ InitApplied

\* tree.invalid_path(path)
DropPath ==
    /\ ~drop.done
    /\ tree' = invalid_path(tree, drop.path)
    /\ drop' = [drop EXCEPT !.before = tree, !.done = TRUE]
    /\ UNCHANGED <<remote, failures, steps, last, pvars, pheld, pnode, svars>>
    /\ UNCHANGED <<valid, loaded, cload, cvars, stvars, uvars, listed, vvars, blob, fvars, avars>>

NextDrop == DropPath

SpecDrop == InitDrop /\ [][NextDrop]_vars

\* ---- RpcFile (shvcli/file.py) --------------------------------------------
Least(a, b) == IF a < b THEN a ELSE b

\* seq[a:b] of Python for 0 <= a; b < 0 stands for None
Slice(seq, a, b) ==
    LET e == IF b < 0 THEN Len(seq) ELSE Least(b, Len(seq))
    IN  SubSeq(seq, Least(a, Len(seq)) + 1, e)

\* lines 107-112
_ifloor(val, mult) == val - (val % mult)
_iceil(val, mult) == val + (mult - (val % mult))

\* the file node's method write: data replaces the bytes from offset on
remote_write(content, offset, data) ==
    [i \in 1..Len(content) |->
        IF i > offset /\ i <= offset + Len(data) THEN data[i - offset] ELSE content[i]]

\* the file node's method read: at most cnt bytes from offset on
remote_read(content, offset, cnt) == Slice(content, offset, offset + cnt)

\* lines 269-285: __fetch_stat_info, _page_size, _max_write
_page_size(stat) == stat.page_size
_max_write(stat) == IF stat.max_write # 0 THEN stat.max_write ELSE stat.page_size

\* lines 363-369: the remote file after the writes of at most max_write bytes
RECURSIVE _page_write(_, _, _, _)
_page_write(content, offset, data, stat) ==
    IF data = <<>> THEN content
    ELSE LET towrite == Slice(data, 0, _max_write(stat))
         IN  _page_write(remote_write(content, offset, towrite), offset + Len(towrite),
                         Slice(data, _max_write(stat), -1), stat)

\* lines 287-303, for size > 0 or size = -1: the bytes read in blocks of at
\* most a page until size bytes are read or the file ends
RECURSIVE _unbuf_read(_, _, _, _)
_unbuf_read(content, offset, size, stat) ==
    IF size = 0 THEN <<>>
    ELSE LET cnt == IF 0 < size /\ size < _page_size(stat) THEN size
                    ELSE _page_size(stat)
             data == remote_read(content, offset, cnt)
         IN  IF data = <<>> THEN <<>>
             ELSE data \o _unbuf_read(content, offset + Len(data),
                                      IF size > 0 THEN size - Len(data) ELSE size, stat)

\* an object and its remote file after an operation, with what it returned
FileRes(f, content, ret) == [f |-> f, content |-> content, ret |-> ret]

\* lines 408-423
flush(f, content, stat) ==
    IF "W_BUFFERED" \notin f.flags THEN FileRes(f, content, <<>>)
    ELSE FileRes([f EXCEPT !.write_buffer = <<>>],
                 _page_write(content, f.write_offset, f.write_buffer, stat), <<>>)

\* lines 371-406, without the append mode
write(f, content, stat, data) ==
    IF "W_BUFFERED" \notin f.flags
    THEN FileRes([f EXCEPT !.offset = @ + Len(data)],
                 _page_write(content, f.offset, data, stat), <<>>)
    ELSE LET inside == /\ f.write_buffer # <<>>
                       /\ f.write_offset <= f.offset
                       /\ f.offset <= f.write_offset + Len(f.write_buffer)
             \* lines 385-396
             buf1 == IF inside
                     THEN Slice(f.write_buffer, 0, f.offset - f.write_offset) \o data
                     ELSE data
             woff1 == IF inside THEN f.write_offset ELSE f.offset
             cont1 == IF ~inside /\ f.write_buffer # <<>>
                      THEN _page_write(content, f.write_offset, f.write_buffer, stat)
                      ELSE content
             \* lines 398-403
             page_size == _max_write(stat)
             full == Len(buf1) > page_size
             size == _ifloor(Len(buf1), page_size)
         IN  FileRes([f EXCEPT !.write_buffer = IF full THEN Slice(buf1, size, -1) ELSE buf1,
                               !.write_offset = woff1,
                               !.offset = @ + Len(data)],
                     IF full THEN _page_write(cont1, woff1, Slice(buf1, 0, size), stat)
                     ELSE cont1,
                     <<>>)

\* lines 305-347; size 0 stands for no limit
read(f, content, stat, size) ==
    IF "R_BUFFERED" \notin f.flags
    THEN LET result == _unbuf_read(content, f.offset, IF size = 0 THEN -1 ELSE size, stat)
         IN  FileRes([f EXCEPT !.offset = @ + Len(result)], content, result)
    ELSE LET \* lines 317-322: flush the write buffer if the read overlaps with it
             fl == IF /\ {"W_BUFFERED", "APPEND"} \subseteq f.flags
                      /\ \/ f.write_offset <= f.offset + (IF size > 0 THEN size ELSE 0)
                         \/ f.write_offset + Len(f.write_buffer) >= f.offset
                   THEN flush(f, content, stat)
                   ELSE FileRes(f, content, <<>>)
             g == fl.f
             page_size == _page_size(stat)
             inbuf == /\ g.read_offset <= g.offset
                      /\ g.offset <= g.read_offset + page_size
             bstart == g.offset - g.read_offset
             result1 == IF inbuf
                        THEN Slice(g.read_buffer, bstart,
                                   IF size > 0 THEN bstart + size ELSE -1)
                        ELSE <<>>
         IN  IF inbuf /\ size > 0 /\ Len(result1) = size
             THEN FileRes([g EXCEPT !.offset = @ + Len(result1)], fl.content, result1)
             ELSE LET page_start == _ifloor(g.offset + Len(result1), page_size)
                      data == _unbuf_read(fl.content, page_start,
                                          IF size > 0
                                          THEN _iceil(size - Len(result1), page_size)
                                          ELSE -1, stat)
                      poff == _ifloor(Len(data), page_size)
                      doff == g.offset + Len(result1) - page_start
                      result == result1 \o
                                Slice(data, doff,
                                      IF size > 0 THEN doff + size - Len(result1) ELSE -1)
                  IN  FileRes([g EXCEPT !.read_buffer = Slice(data, poff, -1),
                                        !.read_offset = page_start + poff,
                                        !.offset = @ + Len(result)],
                              fl.content, result)

\* what the file reports: a page of 2 or 3 bytes, max_write absent (0), 1 or 2
Stats == [page_size : {2, 3}, max_write : {0, 1, 2}]

\* the flags of the buffered object: the default, or buffered writes alone
BufferedFlags == {BUFFERED, {"W_BUFFERED"}}

\* an operation done on both objects
FileOp(op, at, size, data, ret) ==
    [op |-> op, at |-> at, size |-> size, data |-> data, ret |-> ret]

\* the bytes of the n-th operation: every byte written is different
Data(n, len) == [i \in 1..len |-> 10 * n + i]

\* a file of FileSize zero bytes is opened twice: buffered, and with Flag(0)
FileOpen(flags, stat) ==
    /\ fhist = <<>>
    /\ remotes.buf = <<>>
    /\ files' = [buf |-> RpcFile(flags), plain |-> RpcFile({})]
    /\ remotes' = [buf |-> [i \in 1..FileSize |-> 0], plain |-> [i \in 1..FileSize |-> 0]]
    /\ fstat' = stat
    /\ UNCHANGED fhist
    /\ UNCHANGED <<tree, remote, failures, steps, last, pvars, pheld, pnode, svars>>
    /\ UNCHANGED <<valid, loaded, cload, cvars, stvars, uvars, listed, vvars, blob, drop, avars>>

\* the file is open and another operation may be done
FileReady == remotes.buf # <<>> /\ Len(fhist) < MaxFileOps

\* await file.write(data) on both objects, inside the file
FileWrite(len) ==
    /\ FileReady
    /\ files.buf.offset + len <= FileSize
    /\ LET data == Data(Len(fhist) + 1, len)
           b == write(files.buf, remotes.buf, fstat, data)
           p == write(files.plain, remotes.plain, fstat, data)
       IN  /\ files' = [buf |-> b.f, plain |-> p.f]
           /\ remotes' = [buf |-> b.content, plain |-> p.content]
           /\ fhist' = Append(fhist, FileOp("write", files.buf.offset, len, data, <<>>))
    /\ UNCHANGED fstat
    /\ UNCHANGED <<tree, remote, failures, steps, last, pvars, pheld, pnode, svars>>
    /\ UNCHANGED <<valid, loaded, cload, cvars, stvars, uvars, listed, vvars, blob, drop, avars>>

\* file.offset = value, lines 190-194
FileSeek(value) ==
    /\ FileReady
    /\ value # files.buf.offset
    /\ files' = [buf |-> [files.buf EXCEPT !.offset = value],
                 plain |-> [files.plain EXCEPT !.offset = value]]
    /\ fhist' = Append(fhist, FileOp("seek", value, 0, <<>>, <<>>))
    /\ UNCHANGED <<remotes, fstat>>
    /\ UNCHANGED <<tree, remote, failures, steps, last, pvars, pheld, pnode, svars>>
    /\ UNCHANGED <<valid, loaded, cload, cvars, stvars, uvars, listed, vvars, blob, drop, avars>>

\* await file.flush() on both objects
FileFlush ==
    /\ FileReady
    /\ LET b == flush(files.buf, remotes.buf, fstat)
           p == flush(files.plain, remotes.plain, fstat)
       IN  /\ files' = [buf |-> b.f, plain |-> p.f]
           /\ remotes' = [buf |-> b.content, plain |-> p.content]
    /\ fhist' = Append(fhist, FileOp("flush", files.buf.offset, 0, <<>>, <<>>))
    /\ UNCHANGED fstat
    /\ UNCHANGED <<tree, remote, failures, steps, last, pvars, pheld, pnode, svars>>
    /\ UNCHANGED <<valid, loaded, cload, cvars, stvars, uvars, listed, vvars, blob, drop, avars>>

\* await file.read(size) on the buffered object; the other one moves along
FileRead(size) ==
    /\ FileReady
    /\ LET b == read(files.buf, remotes.buf, fstat, size)
       IN  /\ files' = [buf |-> b.f, plain |-> [files.plain EXCEPT !.offset = b.f.offset]]
           /\ remotes' = [remotes EXCEPT !.buf = b.content]
           /\ fhist' = Append(fhist, FileOp("read", files.buf.offset, size, <<>>, b.ret))
    /\ UNCHANGED fstat
    /\ UNCHANGED <<tree, remote, failures, steps, last, pvars, pheld, pnode, svars>>
    /\ UNCHANGED <<valid, loaded, cload, cvars, stvars, uvars, listed, vvars, blob, drop, avars>>

NextFile ==
    \/ \E flags \in BufferedFlags, stat \in Stats : FileOpen(flags, stat)
    \/ \E len \in 1..MaxData : FileWrite(len)
    \/ \E value \in 0..(FileSize - 1) : FileSeek(value)
    \/ FileFlush
    \/ \E size \in 0..MaxData : FileRead(size)

SpecFile == Init /\ [][NextFile]_vars

\* ---- CliItems.extend_ri (cliitems.py 75-88) -------------------------------
\* str.split(sep)
RECURSIVE split(_, _)
split(text, sep) ==
    IF ~HasChar(text, sep) THEN <<text>>
    ELSE <<partition(text, sep)[1]>> \o split(partition(text, sep)[2], sep)

\* str(prefix / path) of a relative path
PathUnder(prefix, path) == Join(prefix \o Parts(path))

\* lines 82-88
extend_ri(ri, path_prefix) ==
    LET parts == split(ri, Colon)
        path == IF parts[1] # <<>> THEN parts[1] ELSE <<"**">>
        method == IF Len(parts) = 2 THEN parts[2] ELSE <<"*">>
        signal == IF Len(parts) = 3 THEN parts[3] ELSE <<"*">>
    IN  (IF ~path_prefix.given THEN path ELSE PathUnder(path_prefix.parts, path))
            \o <<Colon>> \o method \o <<Colon>> \o signal

\* the items of the RIs given
RiPaths == {<<>>, <<"dev">>, <<"dev", Sep, "dev">>, <<".app">>}
RiMethods == {<<>>, <<"get">>, <<"*">>}
RiSignals == {<<>>, <<"chng">>, <<"*">>}

\* the RIs given: a path, a path and a method, all three items
Ris ==
    RiPaths
    \cup {p \o <<Colon>> \o m : p \in RiPaths, m \in RiMethods}
    \cup {p \o <<Colon>> \o m \o <<Colon>> \o g :
            p \in RiPaths, m \in RiMethods, g \in RiSignals}

\* CliItems.extend_ri(ri, path_prefix), as ri_param calls it for each RI
ExtendRi(ri, path_prefix) ==
    /\ ~eri.done
    /\ eri' = [ri |-> ri, path_prefix |-> path_prefix,
               out |-> extend_ri(ri, path_prefix), done |-> TRUE]
    /\ UNCHANGED <<tree, remote, failures, steps, last, pvars, pheld, pnode, svars>>
    /\ UNCHANGED <<valid, loaded, cload, cvars, stvars, uvars, listed, vvars, blob, drop, fvars>>
    /\ UNCHANGED <<rel, optvars, comp>>

NextRi ==
    \E ri \in Ris, path_prefix \in {NoPrefix, Prefix(<<>>), Prefix(<<"dev">>)} :
        ExtendRi(ri, path_prefix)

SpecRi == Init /\ [][NextRi]_vars

\* ---- SHVPath (shvcli/path.py) ---------------------------------------------
\* lines 28-36: the parts kept of the segments, ".." removing the part before
RECURSIVE add_segments(_, _)
add_segments(parts, segments) ==
    IF segments = <<>> THEN parts
    ELSE LET segment == Head(segments)
         IN  IF segment = <<"..">>
             THEN add_segments(IF parts # <<>> THEN SubSeq(parts, 1, Len(parts) - 1)
                               ELSE parts, Tail(segments))
             ELSE IF segment # <<>>
             THEN add_segments(parts \o segment, Tail(segments))
             ELSE add_segments(parts, Tail(segments))

\* SHVPath(text), lines 24-36: the parts of the path
SHVPath(text) == add_segments(<<>>, split(text, Sep))

\* lines 134-138, self and path given by their parts
is_relative_to(self, path) == SubSeq(path, 1, Least(Len(self), Len(path))) = self

\* lines 161-167: the parts of the relative path, or the ValueError
relative_to(self, other) ==
    IF SubSeq(self, 1, Least(Len(other), Len(self))) # other
    THEN [raised |-> "ValueError", parts |-> <<>>]
    ELSE [raised |-> "no", parts |-> SubSeq(self, Len(other) + 1, Len(self))]

\* the path strings given: every path of up to MaxDepth + 1 names, bare and
\* wrapped in separators, and one with ".."
PathTexts ==
    {Join(x) : x \in DropPaths}
    \cup {<<Sep>> \o Join(x) \o <<Sep>> : x \in DropPaths}
    \cup {<<"dev", Sep, "..", Sep, ".app">>}

\* self.is_relative_to(other) and self.relative_to(other) for two path strings
RelativeTo(self, other) ==
    /\ ~rel.done
    /\ rel' = [self |-> SHVPath(self), other |-> SHVPath(other),
               is_relative_to |-> is_relative_to(SHVPath(self), SHVPath(other)),
               relative_to |-> relative_to(SHVPath(self), SHVPath(other)),
               done |-> TRUE]
    /\ UNCHANGED <<tree, remote, failures, steps, last, pvars, pheld, pnode, svars>>
    /\ UNCHANGED <<valid, loaded, cload, cvars, stvars, uvars, listed, vvars, blob, drop, fvars>>
    /\ UNCHANGED <<eri, optvars, comp>>

NextPath == \E self \in PathTexts, other \in PathTexts : RelativeTo(self, other)

SpecPath == Init /\ [][NextPath]_vars

\* ---- the boolean options (option.py 70-118, options.py) -------------------
BoolOptions == DOMAIN ValueOptions \cup {"debug"}

\* BoolOption.name and BoolOption.aliases, lines 73-86
NoAlias(name) ==
    CASE name = "vimode" -> "novimode"
      [] name = "autoget" -> "noautoget"
      [] name = "autoprobe" -> "noautoprobe"
      [] name = "raw" -> "noraw"
      [] name = "callduration" -> "nocallduration"
      [] OTHER -> "nodebug"
aliases(name) == {name, NoAlias(name)}

\* str.lower() of the values given
lower(value) ==
    CASE value = "TRUE" -> "true"
      [] value = "F" -> "f"
      [] OTHER -> value

\* the values given to set
SetValues == {"true", "false", "t", "f", "", "TRUE", "F", "yes"}

\* the dict mp of line 95
mp == [true |-> TRUE, false |-> FALSE, t |-> TRUE, f |-> FALSE]
mp_has(value) == value = "" \/ value \in DOMAIN mp
mp_get(value) == IF value = "" THEN TRUE ELSE mp[value]

\* __bool__: options.py 80-81 for the debug option, 20-21 for the others
option_bool(o, vals, level) ==
    IF o = "debug" THEN level >= DEBUG ELSE vals[o]

\* rset: options.py 77-78 for the debug option, 23-24 for the others
rset_value(o, vals, value) == IF o = "debug" THEN vals ELSE [vals EXCEPT ![o] = value]
rset_level(o, level, value) ==
    IF o # "debug" THEN level ELSE IF value THEN DEBUG ELSE WARNING

\* option.rset(value)
OptionRset(o, value) ==
    /\ opts' = rset_value(o, opts, value)
    /\ loglevel' = rset_level(o, loglevel, value)
    /\ oset' = [option |-> o, alias |-> o, value |-> IF value THEN "true" ELSE "false",
                rset |-> TRUE, raised |-> "no", done |-> TRUE]
    /\ UNCHANGED <<tree, remote, failures, steps, last, pvars, pheld, pnode, svars>>
    /\ UNCHANGED <<valid, loaded, cload, cvars, stvars, uvars, listed, vvars, blob, drop, fvars>>
    /\ UNCHANGED <<eri, rel, comp>>

\* BoolOption.set(alias, value), lines 93-104
OptionSet(o, alias, value) ==
    /\ IF mp_has(lower(value))
       THEN LET v == IF alias = NoAlias(o) THEN ~mp_get(lower(value))
                     ELSE mp_get(lower(value))
            IN  /\ opts' = rset_value(o, opts, v)
                /\ loglevel' = rset_level(o, loglevel, v)
                /\ oset' = [option |-> o, alias |-> alias, value |-> value,
                            rset |-> FALSE, raised |-> "no", done |-> TRUE]
       ELSE /\ oset' = [option |-> o, alias |-> alias, value |-> value,
                        rset |-> FALSE, raised |-> "InvalidOptionValueError",
                        done |-> TRUE]
            /\ UNCHANGED <<opts, loglevel>>
    /\ UNCHANGED <<tree, remote, failures, steps, last, pvars, pheld, pnode, svars>>
    /\ UNCHANGED <<valid, loaded, cload, cvars, stvars, uvars, listed, vvars, blob, drop, fvars>>
    /\ UNCHANGED <<eri, rel, comp>>

NextOption ==
    \/ \E o \in BoolOptions, value \in BOOLEAN : OptionRset(o, value)
    \/ \E o \in BoolOptions, value \in SetValues :
          \E alias \in aliases(o) : OptionSet(o, alias, value)

SpecOption == Init /\ [][NextOption]_vars

\* ---- completion and validation while typing (complet.py, valid.py) -------
\* parse_line, parse.py 78-91
parse_line(line) ==
    LET cc == HasChar(line, Space)
        ri == IF cc THEN partition(line, Space)[1] ELSE line
        hc == HasChar(ri, Colon)
    IN  [complete_call |-> cc,
         has_colon |-> hc,
         param_raw |-> IF cc THEN partition(line, Space)[2] ELSE <<>>,
         path |-> IF hc THEN partition(ri, Colon)[1]
                  ELSE IF HasChar(ri, Sep) THEN ri ELSE <<>>,
         method |-> IF hc THEN partition(ri, Colon)[2]
                    ELSE IF HasChar(ri, Sep) THEN <<>> ELSE ri]

\* the methods whose parameter is a path, complet.py 124
PathMethods ==
    {<<"ls">>, <<"dir">>, <<Bang, "cd">>, <<Bang, "sub">>, <<Bang, "subscribe">>}

\* CliCompleter.TOGGLE_OPTS and the keys of INTERNAL that have it
TOGGLE_OPTS == {"toggle", "on", "off"}
ToggleMethods == {<<Bang, "raw">>, <<Bang, "autoprobe">>, <<Bang, "d">>, <<Bang, "debug">>}

\* a completer that probes whatever the option says
wants_probe_always(autoprobe, items) ==
    ~items.complete_call \/ items.method \in PathMethods

\* the condition of complet.py 122-125
wants_probe(autoprobe, items) ==
    autoprobe /\ (~items.complete_call \/ items.method \in PathMethods)

\* CliCompleter._comppath, lines 88-101: the node to look into and the word
\* to complete
_comppath(items, prefix) ==
    LET dynpath == IF items.complete_call THEN items.param_raw
                   ELSE IF items.path # <<>> THEN items.path
                   ELSE items.method
        basepath == IF items.complete_call THEN prefix \o Parts(items.path)
                    ELSE prefix
        onpath == rsplit(dynpath)
    IN  IF ~HasChar(dynpath, Sep) THEN [pth |-> basepath, comp |-> dynpath]
        ELSE [pth |-> basepath \o Parts(onpath[1]), comp |-> onpath[2]]

\* _comp_from, lines 14-19: the values that start with the word
_comp_from(word, possible) ==
    {<<v>> : v \in {p \in possible : word = <<>> \/ word = <<p>>}}

\* CliCompleter._complete_paths, lines 103-115; the tree is looked up only
_complete_paths(t, items, prefix) ==
    LET c == _comppath(items, prefix)
        node == get_node(t, c.pth)
    IN  IF node = None THEN {}
        ELSE IF Len(c.comp) = 1 /\ c.comp[1] \in DOMAIN node.nodes
        THEN {c.comp \o <<Colon>>}
             \cup {c.comp \o <<Sep, n>> : n \in DOMAIN node.nodes[c.comp[1]].nodes}
        ELSE _comp_from(c.comp, DOMAIN node.nodes)

\* CliCompleter.get_completions, lines 49-86, without the names of the
\* builtin methods, which no tree influences; the signals of a node are not
\* cached by the Node of client.py
get_completions(t, line, prefix) ==
    LET items == parse_line(line)
        node == get_node(t, prefix \o Parts(items.path))
        methods == IF node = None THEN {"ls", "dir"} ELSE DOMAIN node.methods
    IN  IF items.complete_call
        THEN (IF items.method \in ToggleMethods
              THEN _comp_from(items.param_raw, TOGGLE_OPTS) ELSE {})
             \cup (IF items.method \in {<<"ls">>, <<"dir">>, <<Bang, "cd">>}
                      \/ (items.method \in {<<Bang, "sub">>, <<Bang, "subscribe">>}
                          /\ ~HasChar(items.param_raw, Colon))
                   THEN _complete_paths(t, items, prefix) ELSE {})
        ELSE IF ~items.has_colon /\ items.path # <<>>
        THEN _complete_paths(t, items, prefix)
        ELSE (IF ~items.has_colon THEN _complete_paths(t, items, prefix) ELSE {})
             \cup _comp_from(items.method, methods)

\* the path get_completions_async probes, lines 126-130
probe_path(items, prefix) ==
    IF items.has_colon THEN prefix \o Parts(items.path)
    ELSE _comppath(items, prefix).pth

\* AutoProbeOption(state), config.autoprobe
AutoProbe == option_bool("autoprobe", opts, loglevel)

\* the lines typed at the prompt
CompLines ==
    {<<>>, <<"dev">>, <<"dev", Sep>>, <<"dev", Colon>>,
     <<"ls", Space, "dev", Sep>>, <<"dev", Colon, "get", Space, "1">>,
     <<Bang, "scan", Space, "3">>, <<Bang, "autoprobe", Space>>}

\* the user edits the line: prompt_toolkit will complete and validate it
Type(line, prefix) ==
    /\ ppc = "idle"
    /\ vinput' = [line |-> line, prefix |-> prefix, raw |-> FALSE]
    /\ vresult' = NoResult
    /\ comp' = [phase |-> "typed", auto |-> FALSE, result |-> {}]
    /\ UNCHANGED <<tree, remote, failures, steps, last, pvars, pheld, pnode, svars>>
    /\ UNCHANGED <<valid, loaded, cload, cvars, stvars, uvars, listed, blob, drop, fvars>>
    /\ UNCHANGED <<eri, rel, optvars>>

\* get_completions_async without a probe, lines 121-125 and 132-133
Complete ==
    /\ ppc = "idle"
    /\ comp.phase = "typed"
    /\ ~wants_probe(AutoProbe, parse_line(vinput.line))
    /\ comp' = [phase |-> "done", auto |-> AutoProbe,
                result |-> get_completions(tree, vinput.line, vinput.prefix)]
    /\ UNCHANGED <<tree, remote, failures, steps, last, pvars, pheld, pnode, svars>>
    /\ UNCHANGED <<valid, loaded, cload, cvars, stvars, uvars, listed, vvars, blob, drop, fvars>>
    /\ UNCHANGED <<eri, rel, optvars>>

\* get_completions_async up to the await of the probe, lines 121-130
CompleteProbe ==
    /\ comp.phase = "typed"
    /\ wants_probe(AutoProbe, parse_line(vinput.line))
    /\ ProbeStart(probe_path(parse_line(vinput.line), vinput.prefix), "completer")
    /\ UNCHANGED svars

\* the probe returned: lines 132-133
CompleteResume ==
    /\ ppc = "done"
    /\ pcaller = "completer"
    /\ comp' = [phase |-> "done", auto |-> AutoProbe,
                result |-> get_completions(tree, vinput.line, vinput.prefix)]
    /\ ppc' = "idle"
    /\ ppath' = <<>>
    /\ pcaller' = "none"
    /\ pheld' = "none"
    /\ pnode' = None
    /\ pcalls' = <<>>
    /\ pouts' = <<>>
    /\ pstart' = None
    /\ pret' = "no"
    /\ UNCHANGED <<tree, remote, failures, steps, last, svars>>
    /\ UNCHANGED <<valid, loaded, cload, cvars, stvars, uvars, listed, vvars, blob, drop, fvars>>
    /\ UNCHANGED <<eri, rel, optvars>>

\* valid.py 67-74: the line is handed to the validate_async of a builtin
asks_builtin(autoprobe, line) ==
    /\ autoprobe
    /\ HasChar(lstrip_space(line), Space)
    /\ items_method(line) # <<>>
    /\ Head(items_method(line)) = Bang
    /\ Tail(items_method(line)) \in Builtins

\* validate_async, lines 65-78, where no builtin is asked or the builtin
\* awaits nothing
ValidateAsync ==
    /\ ppc = "idle"
    /\ comp.phase # "none"
    /\ ~vresult.done
    /\ vresult' = [done |-> TRUE, message |-> validate(tree, vinput)]
    /\ UNCHANGED vinput
    /\ UNCHANGED <<tree, remote, failures, steps, last, pvars, pheld, pnode, svars>>
    /\ UNCHANGED <<valid, loaded, cload, cvars, stvars, uvars, listed, xvars>>

\* line 74: the builtin awaits a probe of the current path
ValidateProbe ==
    /\ comp.phase # "none"
    /\ ~vresult.done
    /\ asks_builtin(AutoProbe, vinput.line)
    /\ ProbeStart(vinput.prefix, "validator")
    /\ UNCHANGED svars

\* the builtin returned: line 78
ValidateResume ==
    /\ ppc = "done"
    /\ pcaller = "validator"
    /\ vresult' = [done |-> TRUE, message |-> validate(tree, vinput)]
    /\ UNCHANGED vinput
    /\ ppc' = "idle"
    /\ ppath' = <<>>
    /\ pcaller' = "none"
    /\ pheld' = "none"
    /\ pnode' = None
    /\ pcalls' = <<>>
    /\ pouts' = <<>>
    /\ pstart' = None
    /\ pret' = "no"
    /\ UNCHANGED <<tree, remote, failures, steps, last, svars>>
    /\ UNCHANGED <<valid, loaded, cload, cvars, stvars, uvars, listed, xvars>>

\* the builtin autoprobe, run between two prompts
SetAutoProbe(value) ==
    /\ ppc = "idle"
    /\ OptionRset("autoprobe", value)

\* the command ls run at the current path fills the cache
NextComplete ==
    \/ \E path \in Prefixes0 : Ls(path)
    \/ \E line \in CompLines, prefix \in Prefixes0 : Type(line, prefix)
    \/ Complete
    \/ CompleteProbe
    \/ ProbeLs1
    \/ ProbeDir
    \/ ProbeLs2
    \/ CompleteResume
    \/ ValidateAsync
    \/ ValidateProbe
    \/ ValidateResume
    \/ \E value \in BOOLEAN : SetAutoProbe(value)

SpecComplete == Init /\ [][NextComplete]_vars

\* ---- helpers of the properties -------------------------------------------
RECURSIVE CachedPaths(_)
CachedPaths(node) ==
    {<<>>} \cup UNION {{<<n>> \o q : q \in CachedPaths(node.nodes[n])} :
                          n \in DOMAIN node.nodes}

IsPrefix(p, q) == Len(p) <= Len(q) /\ SubSeq(q, 1, Len(p)) = p

\* this step is the completion of a wrapper call op (last' describes it)
Completes(op) == steps' = steps + 1 /\ last'.op = op

\* C1: after list_children(P) succeeds returning S, P is cached, its
\* nodes_probed is true and its cached children are exactly S: P/n is cached
\* for every n in S and for no other name.
C1_LsCachesExactlyResult ==
    (last.op = "ls" /\ last.outcome = "ok") =>
        LET node == get_node(tree, last.path)
        IN  /\ node # None
            /\ node.nodes_probed
            /\ \A n \in Names :
                  (n \in last.res) <=> (get_node(tree, Append(last.path, n)) # None)
            /\ DOMAIN node.nodes = last.res

C1_Witness ==
    /\ last.op = "ls" /\ last.outcome = "ok"
    /\ last.path = <<"dev">> /\ last.res = {"dev"}
    /\ get_node(tree, <<"dev", "dev">>) # None
    /\ get_node(tree, <<"dev", ".app">>) = None

\* C2 as stated: when list_children(P) or list_methods(P) fails, P is not
\* cached afterwards, for every path P (the empty path included).
C2_FailureDropsEveryPath ==
    (last.op \in {"ls", "dir"} /\ last.outcome # "ok") =>
        get_node(tree, last.path) = None

\* C2 amended: when list_children(P) or list_methods(P) fails, a non-empty P
\* is not cached afterwards; the empty path (the root) stays cached.
C2_FailureDropsPath ==
    (last.op \in {"ls", "dir"} /\ last.outcome # "ok") =>
        (get_node(tree, last.path) = None) <=> (last.path # <<>>)

C2_Witness ==
    /\ steps = 1
    /\ last.op = "dir" /\ last.outcome = "RpcError"
    /\ last.path = <<".app">>
    /\ get_node(tree, <<".app">>) = None

\* C3: after call(P, m) on a non-empty P returned or failed with an error
\* other than method-not-found, P is cached and m is in its method table,
\* with the descriptor m had before, or without one when m was not known;
\* no probed flag and no other method changes, no cached path is removed and
\* the only paths that became cached are P and its ancestors.
C3_CallRecordsMethod ==
    [][(Completes("call") /\ last'.outcome # "RpcMethodNotFoundError"
            /\ last'.path # <<>>) =>
        LET P == last'.path
            m == last'.method
            old == get_node(tree, P)
            new == get_node(tree', P)
        IN  /\ new # None
            /\ m \in DOMAIN new.methods
            /\ new.methods[m] =
                  IF old # None /\ m \in DOMAIN old.methods
                  THEN old.methods[m] ELSE None
            /\ \A Q \in CachedPaths(tree) :
                  LET o == get_node(tree, Q)
                      n == get_node(tree', Q)
                  IN  /\ n # None
                      /\ n.nodes_probed = o.nodes_probed
                      /\ n.methods_probed = o.methods_probed
                      /\ DOMAIN o.nodes \subseteq DOMAIN n.nodes
                      /\ \A k \in DOMAIN o.methods :
                            k \in DOMAIN n.methods /\ n.methods[k] = o.methods[k]
                      /\ DOMAIN n.methods \subseteq
                            DOMAIN o.methods \cup (IF Q = P THEN {m} ELSE {})
            /\ \A Q \in CachedPaths(tree') \ CachedPaths(tree) :
                  /\ IsPrefix(Q, P)
                  /\ LET n == get_node(tree', Q)
                     IN  /\ ~n.nodes_probed /\ ~n.methods_probed
                         /\ DOMAIN n.methods \ {m} = {"ls", "dir"}
       ]_vars

C3_Witness ==
    /\ last.op = "call" /\ last.outcome = "RpcError"
    /\ last.path = <<"dev">> /\ last.method = "get"
    /\ get_method(tree, <<"dev">>, "get") = DescGet
    /\ get_node(tree, <<"dev">>).methods_probed

\* C4: when call(P, m) raises method-not-found, the whole cache is what it
\* was before the call.
C4_MethodNotFoundKeepsCache ==
    [][(Completes("call") /\ last'.outcome = "RpcMethodNotFoundError") =>
           tree' = tree]_vars

C4_Witness ==
    /\ last.op = "call" /\ last.outcome = "RpcMethodNotFoundError"
    /\ last.path = <<"dev">>
    /\ get_node(tree, <<"dev">>) = None

\* C5: after list_methods(P) succeeds returning the descriptors D, P is
\* cached, its methods_probed is true and its method table maps exactly the
\* names of the callable descriptors of D to these descriptors;
\* lookup_method gives none for every other name.
C5_DirCachesCallable ==
    (last.op = "dir" /\ last.outcome = "ok") =>
        LET node == get_node(tree, last.path)
            callable == {d \in last.descs : "NOT_CALLABLE" \notin d.flags}
        IN  /\ node # None
            /\ node.methods_probed
            /\ DOMAIN node.methods = {d.name : d \in callable}
            /\ \A d \in callable : get_method(tree, last.path, d.name) = d
            /\ \A m \in {"ls", "dir", "get", "chng"} \ {d.name : d \in callable} :
                  get_method(tree, last.path, m) = None

C5_Witness ==
    /\ last.op = "dir" /\ last.outcome = "ok"
    /\ last.descs = {DescGet, DescChng}
    /\ last.path = <<".app">>
    /\ get_method(tree, <<".app">>, "get") = DescGet
    /\ get_method(tree, <<".app">>, "ls") = None
    /\ get_method(tree, <<".app">>, "chng") = None

\* C6: when list_children(P) succeeds on a cached P, every child whose name
\* is returned again keeps its Node (children, methods and flags, recursively)
\* and the children that are removed are those whose names are not returned.
C6_LsKeepsListedChildren ==
    [][(Completes("ls") /\ last'.outcome = "ok"
            /\ get_node(tree, last'.path) # None) =>
        LET old == get_node(tree, last'.path)
            new == get_node(tree', last'.path)
        IN  /\ \A n \in DOMAIN old.nodes \cap last'.res :
                  n \in DOMAIN new.nodes /\ new.nodes[n] = old.nodes[n]
            /\ DOMAIN old.nodes \ DOMAIN new.nodes = DOMAIN old.nodes \ last'.res
       ]_vars

C6_Witness ==
    /\ last.op = "ls" /\ last.outcome = "ok"
    /\ last.path = <<>> /\ last.res = {"dev"}
    /\ get_node(tree, <<"dev">>) # NewNode
    /\ get_node(tree, <<".app">>) = None

Parent(path) == SubSeq(path, 1, Len(path) - 1)

\* C7 as stated: a probe of a path that is not cached first lists the children
\* of the parent of the path, and issues at most that listing, then one
\* list_methods and one list_children of the path, in that order.
C7_FirstCallListsParent ==
    (ppc # "idle" /\ pstart = None) =>
        LET lp == <<"ls", Parent(ppath)>>
            d == <<"dir", ppath>>
            l == <<"ls", ppath>>
        IN  pcalls \in {<<lp>>, <<lp, d>>, <<lp, l>>, <<lp, d, l>>}

\* C7 amended: a probe of a path P that is not cached first lists the children
\* of P itself; over the whole probe it issues that one list_children(P), then,
\* only if P resolves after it (the listing succeeded), at most one
\* list_methods(P), and no other call.
C7_FirstCallListsPath ==
    (ppc # "idle" /\ pstart = None) =>
        LET d == <<"dir", ppath>>
            l == <<"ls", ppath>>
        IN  /\ pcalls \in {<<l>>, <<l, d>>}
            /\ pcalls = <<l, d>> => (pouts[1] = "ok" /\ pheld # "none")
            /\ (ppc = "done" /\ pouts[1] # "ok") => pcalls = <<l>>

C7_Witness ==
    /\ ppc = "done" /\ pstart = None
    /\ ppath = <<"dev", "dev">>
    /\ pcalls = <<<<"ls", ppath>>, <<"dir", ppath>>>>
    /\ pouts = <<"ok", "ok">>

\* C8 as stated: a probe of a cached path issues list_methods(P) iff
\* methods_probed was false, then list_children(P) iff nodes_probed was false.
C8_CallsIffUnprobed ==
    (ppc = "done" /\ pstart # None) =>
        pcalls = (IF ~pstart.methods_probed THEN <<<<"dir", ppath>>>> ELSE <<>>)
                 \o (IF ~pstart.nodes_probed THEN <<<<"ls", ppath>>>> ELSE <<>>)

\* C8 amended: a probe of a cached path P issues list_methods(P) iff
\* methods_probed(P) is false; then, unless that list_methods failed (which
\* ends the probe), it issues list_children(P) iff nodes_probed of the node it
\* looked up is false at that moment (as at invocation, when no other
\* coroutine's call completed in between); each at most once and in that
\* order; if both flags are true it issues no call and leaves the cache
\* unchanged.
C8_CacheUntouched ==
    (ppc = "idle" /\ ppc' = "done") => (tree' = tree /\ pcalls' = <<>>)

C8_CallsAtReturn ==
    (ppc = "done" /\ pstart # None) =>
        LET d == <<"dir", ppath>>
            l == <<"ls", ppath>>
            dirIssued == pcalls # <<>> /\ pcalls[1] = d
            dirFailed == dirIssued /\ pouts[1] # "ok"
            lsIssued == pcalls # <<>> /\ pcalls[Len(pcalls)] = l
            alone == steps = pstart.steps + Len(pouts)
        IN  /\ pcalls \in {<<>>, <<d>>, <<l>>, <<d, l>>}
            /\ dirIssued <=> ~pstart.methods_probed
            /\ dirFailed => pcalls = <<d>>
            /\ lsIssued => ~pstart.nodes_probed
            /\ (~lsIssued /\ ~dirFailed) => HeldVal.nodes_probed
            /\ (alone /\ ~dirFailed) => (lsIssued <=> ~pstart.nodes_probed)
            /\ (pstart.methods_probed /\ pstart.nodes_probed) => pcalls = <<>>

\* C8 amended (both parts): the calls a probe of a cached path has issued when
\* it returns, and the cache untouched by a probe that issues none.
C8_CallsIfUnprobed == []C8_CallsAtReturn /\ [][C8_CacheUntouched]_vars

C8_Witness ==
    /\ ppc = "done" /\ pstart # None
    /\ ppath = <<"dev">>
    /\ pstart.methods_probed /\ pstart.nodes_probed
    /\ pcalls = <<>>

\* C9: when probe(P) returns, its result is what lookup_path(P) gives at that
\* moment: none exactly when P is not cached, else the Node cached at P.
C9_ResultIsLookup ==
    [][(ppc # "done" /\ ppc' = "done") =>
          /\ (pheld' = "none") <=> (get_node(tree', ppath') = None)
          /\ pheld' # "detached"]_vars

\* C10: neither probe nor scan propagates a remote error: whichever call
\* fails, probe returns normally and scan goes on; when scan returns, it has
\* processed every entry of its list.
C10_NoRemoteErrorEscapes ==
    /\ pret \in {"no", "returned"}
    /\ ppc = "done" => pret = "returned"
    /\ spc # "raised"
    /\ spc = "done" =>
          /\ pths = <<>>
          /\ completed = total
          /\ completed = Len(sprobed)

C10_Witness ==
    /\ spc = "done"
    /\ failures = 1
    /\ last.outcome = "ok"
    /\ Len(sprobed) >= 3

\* ---- scan_nodes: the paths probed ----------------------------------------
\* the paths scan_nodes handed to probe, as a set
ProbedSet == {sprobed[i] : i \in 1..Len(sprobed)}

\* the existing paths under root at most d levels below it
SubtreeUpTo(root, d) ==
    {p \in remote : IsPrefix(root, p) /\ Len(p) - Len(root) <= d}

\* C11: on a static remote tree and with no failing remote call,
\* scan(root_path, d) of an existing root_path has probed, when it returns,
\* exactly the existing paths under root_path at most d levels below it.
C11_ProbesSubtreeToDepth ==
    (spc = "done" /\ failures = 0 /\ sargs.path \in remote) =>
        ProbedSet = SubtreeUpTo(sargs.path, sargs.depth)

\* no path is handed to probe twice
C12_ProbedOnce ==
    \A i, j \in 1..Len(sprobed) : sprobed[i] = sprobed[j] => i = j

\* C12: when every remote call returns, scan(root_path, max_depth)
\* terminates with an empty list of paths, whatever the remote tree, the
\* depth and the failing calls are: no path is probed twice and the loop is
\* eventually left.
C12_ScanTerminates ==
    /\ []C12_ProbedOnce
    /\ (pb = "open") ~> (spc = "done" /\ pths = <<>>)

C12_Witness ==
    /\ spc = "done"
    /\ pths = <<>>
    /\ failures = MaxFailures
    /\ sargs.depth = MaxScanDepth
    /\ Len(sprobed) > MaxScanDepth

\* ---- path_is_valid -------------------------------------------------------
\* the path a string names
ArgPath(arg) == SelectSeq(arg, LAMBDA t : t # "/")

\* C13: path_is_valid(P) gives true for the empty path without a remote
\* call; for a non-empty P it calls list_children(parent(P)) and gives true
\* exactly when that call succeeds and the last name of P is among the names
\* it returned; when the call fails it gives false.
C13_ValidIffListed ==
    valid.done =>
        LET path == ArgPath(valid.arg)
        IN  /\ path = <<>> => valid.ret /\ ~valid.called
            /\ path # <<>> =>
                  /\ valid.called
                  /\ valid.ls.op = "ls"
                  /\ valid.ls.path = Parent(path)
                  /\ valid.ret <=> (valid.ls.raised = "no" /\ path[Len(path)] \in valid.ls.res)
                  /\ valid.ls.raised # "no" => ~valid.ret

C13_Witness ==
    /\ valid.done
    /\ valid.arg = <<"/", "dev", "/", "dev", "/">>
    /\ valid.ls.path = <<"dev">>
    /\ valid.ls.res = {".app", "dev"}
    /\ valid.ret

\* C14 as stated: when the parent of P is cached with its child list known,
\* path_is_valid(P) makes no remote call and answers from the cached children.
C14_NoCallWhenParentKnown ==
    (valid.done /\ valid.known # None) =>
        /\ ~valid.called
        /\ valid.ret <=> (ArgPath(valid.arg)[Len(ArgPath(valid.arg))] \in valid.known.names)

\* C14: path_is_valid(P) of a non-empty P calls list_children(parent(P))
\* in every case, also when the child list of the parent is already cached;
\* its answer is the remote one and the cached child list is replaced by it.
C14_AlwaysListsParent ==
    [][(valid' # valid /\ ArgPath(valid'.arg) # <<>>) =>
          LET path == ArgPath(valid'.arg)
              node == get_node(tree', Parent(path))
          IN  /\ valid'.called
              /\ steps' = steps + 1
              /\ last' = valid'.ls
              /\ last'.op = "ls" /\ last'.path = Parent(path)
              /\ last'.raised = "no" =>
                    /\ node # None /\ node.nodes_probed
                    /\ DOMAIN node.nodes = last'.res
                    /\ valid'.ret <=> (path[Len(path)] \in DOMAIN node.nodes)]_vars

C14_Witness ==
    /\ valid.done
    /\ valid.called
    /\ valid.known # None
    /\ valid.ls.raised = "no"
    /\ valid.ret
    /\ ArgPath(valid.arg)[Len(ArgPath(valid.arg))] \notin valid.known.names

\* ---- persistence ---------------------------------------------------------
\* C15: whatever list_children, list_methods, call and the drops of failed
\* calls made of the tree, loading its dump into a fresh tree gives a tree
\* equal to it: the same children, method tables and probed flags.
C15_LoadOfDumpIsTree ==
    [][loaded' # loaded =>
          /\ loaded'.raised = "no"
          /\ loaded'.tree0 = tree
          /\ loaded'.node = tree]_vars

\* a Node as the operations of the cache expect it
RECURSIVE IsNode(_)
IsNode(n) ==
    /\ DOMAIN n = {"nodes", "methods", "nodes_probed", "methods_probed"}
    /\ n.nodes_probed \in BOOLEAN
    /\ n.methods_probed \in BOOLEAN
    /\ \A m \in DOMAIN n.methods :
          n.methods[m] = None \/ DOMAIN n.methods[m] = {"name", "flags"}
    /\ \A k \in DOMAIN n.nodes : IsNode(n.nodes[k])

\* the file is missing, is not ChainPack, is not a map or has no tree entry
TopLevelMalformed(file) ==
    ~is_shvmap(file) \/ "tree0" \notin DOMAIN file.v

\* C16: loading a cache file never raises, whatever the file holds, and
\* leaves a usable tree; a file malformed at top level leaves the tree as it
\* was.
C16_LoadNeverRaises ==
    [][cload' # cload =>
          /\ cload'.raised = "no"
          /\ IsNode(tree')
          /\ TopLevelMalformed(cload'.file) => tree' = tree]_vars

\* ---- what the cache holds ------------------------------------------------
Prefixes(path) == {SubSeq(path, 1, i) : i \in 0..Len(path)}

\* the paths the remote side shows to exist in the call or signal this step
\* completes: the target of a successful ls or dir, the names a successful ls
\* returned, the target of a call that did not raise method-not-found, the
\* path of a signal; each with the paths above it
ObservedInStep ==
    IF steps' # steps + 1 THEN {}
    ELSE IF last'.op = "ls" /\ last'.raised = "no"
    THEN Prefixes(last'.path) \cup {Append(last'.path, n) : n \in last'.res}
    ELSE IF last'.op = "dir" /\ last'.raised = "no"
    THEN Prefixes(last'.path)
    ELSE IF last'.op = "call" /\ last'.raised # "RpcMethodNotFoundError"
    THEN Prefixes(last'.path)
    ELSE IF last'.op = "signal" THEN Prefixes(last'.path)
    ELSE {}

C17_CachedWhenObserved ==
    [][CachedPaths(tree') \ CachedPaths(tree) \subseteq ObservedInStep]_vars

C18_ErrorReachesCaller ==
    [][(steps' = steps + 1 /\ last'.op \in {"ls", "dir", "call"} /\ last'.outcome # "ok") =>
          /\ last'.raised = last'.outcome
          /\ (last'.op \in {"ls", "dir"} /\ last'.path # <<>>) =>
                get_node(tree', last'.path) = None
          /\ (last'.op = "call" /\ last'.outcome # "RpcMethodNotFoundError") =>
                /\ get_node(tree', last'.path) # None
                /\ last'.method \in DOMAIN get_node(tree', last'.path).methods
          /\ (last'.op = "call" /\ last'.outcome = "RpcMethodNotFoundError") =>
                tree' = tree]_vars

C18_Witness ==
    /\ steps = 2
    /\ last.op = "ls"
    /\ last.by = "user"
    /\ last.raised = "RpcError"
    /\ last.path = <<"dev", "dev">>
    /\ get_node(tree, <<"dev">>) # None
    /\ get_node(tree, <<"dev", "dev">>) = None

\* C19 as stated: after call(P, m) raised method-not-found, P resolves in the
\* cache, also when it did not before, and its method table is what it was.
C19_MethodNotFoundConfirmsPath ==
    [][(Completes("call") /\ last'.outcome = "RpcMethodNotFoundError") =>
          /\ get_node(tree', last'.path) # None
          /\ get_node(tree, last'.path) # None =>
                get_node(tree', last'.path).methods = get_node(tree, last'.path).methods]_vars

\* C19: after call(P, m) raised method-not-found, lookup_path(P) gives what
\* it gave before the call: none when P was not cached, else the same node
\* with the same method table.
C19_MethodNotFoundKeepsLookup ==
    [][(Completes("call") /\ last'.outcome = "RpcMethodNotFoundError") =>
          get_node(tree', last'.path) = get_node(tree, last'.path)]_vars

C19_Witness ==
    /\ steps = 1
    /\ last.op = "call"
    /\ last.raised = "RpcMethodNotFoundError"
    /\ last.path = <<"dev", "dev">>
    /\ get_node(tree, <<"dev", "dev">>) = None
    /\ get_node(tree, <<"dev">>) = None

\* C20: a call on the empty path caches nothing, however it ends: the method
\* table of the root and the rest of the tree are what they were.
C20_RootCallCachesNothing ==
    [][(Completes("call") /\ last'.path = <<>>) => tree' = tree]_vars

\* C21: under every interleaving of the probe with the wrapper calls of other
\* coroutines, the tree changes only in the step in which a remote call
\* completes, and that one step holds the whole update of the wrapper: after a
\* listing of children the node has exactly the listed children and
\* nodes_probed is true, after a listing of methods it has exactly the
\* callable methods listed and methods_probed is true; a call that is only
\* issued or still in flight has changed nothing.
C21_WholeUpdateInOneStep ==
    [][/\ tree' # tree => steps' = steps + 1
       /\ (cpend' # cpend /\ steps' = steps) => tree' = tree
       /\ (Completes("ls") /\ last'.outcome = "ok") =>
             LET node == get_node(tree', last'.path)
             IN  /\ node # None
                 /\ node.nodes_probed
                 /\ DOMAIN node.nodes = last'.res
       /\ (Completes("dir") /\ last'.outcome = "ok") =>
             LET node == get_node(tree', last'.path)
             IN  /\ node # None
                 /\ node.methods_probed
                 /\ DOMAIN node.methods =
                       {d.name : d \in {e \in last'.descs : "NOT_CALLABLE" \notin e.flags}}]_vars

\* a listing of the probe has completed while a call of another coroutine is
\* in flight and the probe is suspended at its next call
C21_Witness ==
    /\ cpend # {}
    /\ ppc \in {"dir", "ls2"}
    /\ last.by = "probe"
    /\ last.outcome = "ok"
    /\ get_node(tree, ppath) # None

\* C22: once a probe (of the completer or of a scan) was cancelled while one
\* of its remote calls was in flight, the tree is the tree the calls completed
\* before the cancellation had produced: the call in flight ensured no path,
\* dropped no path and set no flag, and the cancellation counted as no
\* completed call.
C22_CancelKeepsTree ==
    cancelled.at # "no" =>
        /\ tree = cancelled.before
        /\ steps = cancelled.steps
        /\ last.raised # CancelledError
        /\ ppc = "done" => pret = CancelledError

\* a scan was cancelled in the second call of a probe, after calls that
\* changed the tree had completed, and has left its loop
C22_Witness ==
    /\ cancelled.at = "dir"
    /\ spc = "raised"
    /\ steps >= 1
    /\ tree # valid_path(NewNode, <<".app">>)
    /\ get_node(tree, cancelled.path) # None

\* C23: a list_children, list_methods or call that completes right after the
\* same operation on the same path (and method) with the same outcome and the
\* same result leaves the tree exactly as the first one left it.
C23_SecondCallChangesNothing ==
    [][(/\ steps' = steps + 1
        /\ last.op \in {"ls", "dir", "call"}
        /\ last'.op = last.op
        /\ last'.path = last.path
        /\ last'.method = last.method
        /\ last'.outcome = last.outcome
        /\ last'.res = last.res
        /\ last'.descs = last.descs)
       => tree' = tree]_vars

\* the same successful listing of children completed twice in a row, and the
\* first one had changed the tree
C23_Witness ==
    /\ steps = 2
    /\ last.op = "ls"
    /\ last.outcome = "ok"
    /\ last.path = <<"dev">>
    /\ last.res = {"dev"}
    /\ get_node(tree, <<"dev", "dev">>) = NewNode
    /\ DOMAIN tree.nodes = {".app", "dev"}
    /\ ~tree.nodes_probed
    /\ get_node(tree, <<"dev">>).methods = NewNode.methods
    /\ ~get_node(tree, <<"dev">>).methods_probed

\* C24: every State holds exactly one Tree, the one its constructor made; every
\* lookup Tree(state) of every consumer gives that very object, so all
\* consumers of a State see the same content whoever wrote it; two States
\* never hold the same Tree.
C24_OneTreePerState ==
    /\ \A s \in 1..Len(states) :
          /\ "Tree" \in DOMAIN states[s]
          /\ states[s]["Tree"] = made[s]
          /\ heap[made[s]].cls = "Tree"
          /\ Cardinality({o \in 1..Len(heap) :
                 /\ heap[o].cls = "Tree"
                 /\ \/ o = made[s]
                    \/ \E c \in Consumers : refs[c] = [state |-> s, obj |-> o, cls |-> "Tree"]})
                = 1
    /\ \A s1, s2 \in 1..Len(states) : s1 # s2 => made[s1] # made[s2]
    /\ \A c \in Consumers : refs[c].cls = "Tree" => refs[c].obj = made[refs[c].state]
    /\ \A c1, c2 \in Consumers :
          (refs[c1].cls = "Tree" /\ refs[c2].cls = "Tree" /\ refs[c1].state = refs[c2].state)
          => heap[refs[c1].obj].node = heap[refs[c2].obj].node

\* two States exist, both consumers looked up the Tree of the first one, a path
\* was written to it, and the Tree of the second State is still empty
C24_Witness ==
    /\ Len(states) = 2
    /\ \A c \in Consumers : refs[c] = [state |-> 1, obj |-> made[1], cls |-> "Tree"]
    /\ get_node(heap[made[1]].node, <<"dev", "dev">>) # None
    /\ heap[made[2]].node = NewNode

\* the URLs that agree in location, port, protocol and user name
SamePublic(u1, u2) ==
    /\ u1.location = u2.location
    /\ u1.port = u2.port
    /\ u1.protocol = u2.protocol
    /\ u1.username = u2.username

\* the text sub occurs in the text
Occurs(sub, text) ==
    /\ sub # <<>>
    /\ \E i \in 1..Len(text) :
          i + Len(sub) - 1 <= Len(text) /\ SubSeq(text, i, i + Len(sub) - 1) = sub

\* the secret is found neither in the location nor in the user name
Fresh(secret, u) == ~Occurs(secret, u.location) /\ ~Occurs(secret, u.username)

\* C25: the cache path computed for a URL is the cache path of every URL with
\* the same location, port, protocol and user name, whatever password and
\* token the two carry; and a password or token that is not part of the
\* location or the user name occurs nowhere in the path.
C25_CachePathIgnoresSecrets ==
    cpath.done =>
        /\ \A u2 \in Urls \cup {[u EXCEPT !.protocol = "tty"] : u \in Urls} :
              SamePublic(cpath.url, u2) => cache_path(u2) = cpath.path
        /\ \A secret \in {cpath.url.password, cpath.url.token} :
              Fresh(secret, cpath.url) =>
                  /\ ~Occurs(secret, cpath.path)
                  /\ ~Occurs(re_sub(secret), cpath.path)

\* the cache path was computed for a URL with user name, password and token
C25_Witness ==
    /\ cpath.done
    /\ cpath.url.username = <<"admin">>
    /\ cpath.url.password = <<"p", "@", "ss">>
    /\ cpath.url.token = <<"s3cret">>
    /\ cpath.url.location = <<"localhost">>
    /\ cpath.path = <<"tcp", "_", "_", "_", "admin", "_", "localhost", "_", "3756">>

\* C26: whatever calls of other coroutines complete in between, when probe(P)
\* returns and every remote call it issued succeeded, the node cached at P has
\* methods_probed and nodes_probed set.
C26_ProbeLeavesNodeProbed ==
    [][(/\ ppc # "done"
        /\ ppc' = "done"
        /\ pret' = "returned"
        /\ \A i \in DOMAIN pouts' : pouts'[i] = "ok")
       => LET node == get_node(tree', ppath')
          IN  /\ node # None
              /\ node.methods_probed
              /\ node.nodes_probed]_vars

Ensures(rec) ==
    \/ rec.op \in {"ls", "dir"} /\ rec.outcome = "ok"
    \/ rec.op = "call" /\ rec.outcome # "RpcMethodNotFoundError"
    \/ rec.op = "signal"

BuiltinMethods == {stdls, stddir}

\* the method table holds the built-in method b with its descriptor
HasBuiltin(node, b) == b.name \in DOMAIN node.methods /\ node.methods[b.name] = b

\* C28 as stated: every cached node has both built-in methods in its method
\* table, with their well-known descriptors.
C28_BuiltinsAlwaysPresent ==
    \A P \in CachedPaths(tree) :
        \A b \in BuiltinMethods : HasBuiltin(get_node(tree, P), b)

\* C28: a cached node whose methods were not listed yet has both built-in
\* methods with their descriptors; a successful listing of methods leaves a
\* built-in method in the table exactly if the remote side listed it; no other
\* operation takes a built-in method out of the table of a node that stays
\* cached.
C28_BuiltinsUntilListed ==
    /\ [](\A P \in CachedPaths(tree) :
             ~get_node(tree, P).methods_probed =>
                 \A b \in BuiltinMethods : HasBuiltin(get_node(tree, P), b))
    /\ [][/\ (Completes("dir") /\ last'.outcome = "ok") =>
                \A b \in BuiltinMethods :
                    HasBuiltin(get_node(tree', last'.path), b) <=> b \in last'.descs
          /\ \A P \in CachedPaths(tree) \cap CachedPaths(tree') :
                ~(Completes("dir") /\ last'.outcome = "ok" /\ last'.path = P) =>
                    \A b \in BuiltinMethods :
                        HasBuiltin(get_node(tree, P), b) => HasBuiltin(get_node(tree', P), b)]_vars

\* the methods of dev were listed without the built-in ones, then a call
\* recorded a method there: the table holds that method only
C28_Witness ==
    /\ get_node(tree, <<"dev">>) # None
    /\ get_node(tree, <<"dev">>).methods_probed
    /\ DOMAIN get_node(tree, <<"dev">>).methods = {"get"}
    /\ get_node(tree, <<"dev">>).methods["get"] = None
    /\ last.op = "call"
    /\ last.path = <<"dev">>

\* ---- C29 -------------------------------------------------------------------
\* the input of a validated line that is a resource identifier alone, with a
\* path free of white characters
RiInput ==
    /\ vresult.done
    /\ ~HasChar(lstrip_space(vinput.line), Space)
    /\ ~HasChar(items_path(vinput.line), Tab)

\* the segments of the path the line names, and its method
RiParts == vinput.prefix \o Parts(items_path(vinput.line))
RiMethod == items_method(vinput.line)

\* the k-th segment is the first one missing from the cache
FirstMissingAt(k) ==
    /\ k \in 1..Len(RiParts)
    /\ get_node(tree, SubSeq(RiParts, 1, k - 1)) # None
    /\ get_node(tree, SubSeq(RiParts, 1, k)) = None

\* C29: for a line that is a resource identifier, "No such path" is reported
\* only if the first segment missing from the cache is missing under a node
\* whose nodes_probed is true, "No such method" only if the path resolves to a
\* node whose methods_probed is true and whose method table lacks the method,
\* and the line is accepted when the first missing segment is under a node
\* with nodes_probed false, or when the path resolves to a node with
\* methods_probed false and the method is no builtin
C29_ValidatorTrustsFlags ==
    RiInput =>
        /\ vresult.message = "No such path" =>
               \E k \in 1..Len(RiParts) :
                   /\ FirstMissingAt(k)
                   /\ get_node(tree, SubSeq(RiParts, 1, k - 1)).nodes_probed
        /\ vresult.message = "No such method" =>
               /\ get_node(tree, RiParts) # None
               /\ get_node(tree, RiParts).methods_probed
               /\ ~(/\ Len(RiMethod) = 1
                     /\ RiMethod[1] \in DOMAIN get_node(tree, RiParts).methods)
        /\ \A k \in 1..Len(RiParts) :
               (/\ FirstMissingAt(k)
                /\ ~get_node(tree, SubSeq(RiParts, 1, k - 1)).nodes_probed)
                   => vresult.message = "ok"
        /\ (/\ get_node(tree, RiParts) # None
            /\ ~get_node(tree, RiParts).methods_probed
            /\ (RiMethod = <<>> \/ Head(RiMethod) # Bang))
               => vresult.message = "ok"

\* "dev/dev:get" typed at the root was accepted although dev/dev is not cached,
\* because dev is cached with nodes_probed false, while its methods are probed
C29_Witness ==
    /\ RiInput
    /\ vinput.line = <<"dev", Sep, "dev", Colon, "get">>
    /\ vinput.prefix = <<>>
    /\ FirstMissingAt(2)
    /\ ~get_node(tree, <<"dev">>).nodes_probed
    /\ get_node(tree, <<"dev">>).methods_probed
    /\ vresult.message = "ok"

\* ---- C30 -------------------------------------------------------------------
\* C30: at every test of the loop of scan, total = completed + the number of
\* entries of the list; total starts at 1 with the one entry, grows by exactly
\* the number of entries pushed and never otherwise; when scan has returned
\* normally, completed = total = the number of paths probed
C30_ProgressCounters ==
    /\ [](/\ spc = "loop" => total = completed + Len(pths)
          /\ spc = "done" => (completed = total /\ total = Len(sprobed)))
    /\ [][/\ (spc = "idle" /\ spc' = "loop") => (total' = 1 /\ Len(pths') = 1)
          /\ (spc = "probing" /\ spc' = "loop") =>
                 (/\ Len(pths') >= Len(pths)
                  /\ SubSeq(pths', 1, Len(pths)) = pths
                  /\ total' - total = Len(pths') - Len(pths))
          /\ (spc # "idle" /\ ~(spc = "probing" /\ spc' = "loop")) => total' = total]_vars

\* a scan returned after it pushed the two children of its start and one
\* grandchild: four paths probed, total and completed both 4
C30_Witness ==
    /\ spc = "done"
    /\ total = 4
    /\ completed = 4
    /\ Len(sprobed) = 4
    /\ \E i \in DOMAIN sprobed : Len(sprobed[i]) = Len(sargs.path) + 2

\* ---- C31 -------------------------------------------------------------------
\* C31: in no reachable state has scan finished, by emptying its list, by an
\* exception of the probe or by a cancellation at its await, while its
\* progress bar is still open; the bar is open only while scan is in its loop
C31_ProgressBarTornDown ==
    /\ spc \in {"done", "raised"} => pb = "closed"
    /\ pb = "open" => spc \in {"loop", "probing"}

\* a scan was cancelled in the last call of a probe of a later iteration, and
\* has left the with block with the bar closed
C31_Witness ==
    /\ cancelled.at = "ls2"
    /\ spc = "raised"
    /\ pb = "closed"
    /\ completed >= 1
    /\ pths # <<>>

\* ---- C32 -------------------------------------------------------------------
\* the names of the persisted node whose payload is no descriptor
Malformed == {n \in DOMAIN blob.v["methods"].v : ~from_shv_accepts(blob.v["methods"].v[n])}

\* node is the persisted node loaded with every malformed method kept without
\* a descriptor and all else loaded as it is
LoadedGracefully(node) ==
    /\ \A n \in DOMAIN blob.v["methods"].v :
          /\ n \in DOMAIN node.methods
          /\ node.methods[n] = IF n \in Malformed THEN None
                               ELSE from_shv(blob.v["methods"].v[n])
    /\ DOMAIN node.nodes = DOMAIN blob.v["nodes"].v
    /\ \A k \in DOMAIN node.nodes : node.nodes[k] = _load(NewNode, blob.v["nodes"].v[k]).node
    /\ node.nodes_probed = bool(blob.v["nodes_probed"])
    /\ node.methods_probed = bool(blob.v["methods_probed"])

\* C32: when a persisted node is loaded, by Node._load or by Node.load, every
\* method whose descriptor payload is malformed is in the method table of the
\* loaded node without a descriptor, and every other method, the children and
\* the flags are loaded as persisted, without an exception
C32_MalformedKeptAsUnspecified ==
    loaded.done =>
        /\ loaded.raised = "no"
        /\ LoadedGracefully(loaded.tree0)
        /\ LoadedGracefully(loaded.node)

\* Node._load of tree.py alone loads every persisted node so
TreeLoadGraceful ==
    loaded.done => (loaded.raised = "no" /\ LoadedGracefully(loaded.tree0))

\* ---- C33 -------------------------------------------------------------------
\* C33: invalid_path(P) with P non-empty and cached leaves no node at P or
\* below it, leaves every node that is not on the way to P as it was with all
\* below it, and leaves every node on the way to P with its method table, its
\* flags and its children but for the one on the way, the parent of P losing
\* only the last segment of P; with P empty or not cached the tree is as it
\* was, so the root stays
C33_DropsExactlySubtree ==
    drop.done =>
        IF drop.path # <<>> /\ get_node(drop.before, drop.path) # None
        THEN \A q \in DropPaths :
                LET old == get_node(drop.before, q)
                    new == get_node(tree, q)
                IN  IF IsPrefix(drop.path, q) THEN new = None
                    ELSE IF IsPrefix(q, drop.path)
                    THEN /\ new # None
                         /\ new.methods = old.methods
                         /\ new.nodes_probed = old.nodes_probed
                         /\ new.methods_probed = old.methods_probed
                         /\ DOMAIN new.nodes =
                               IF Len(q) = Len(drop.path) - 1
                               THEN DOMAIN old.nodes \ {drop.path[Len(drop.path)]}
                               ELSE DOMAIN old.nodes
                    ELSE new = old
        ELSE tree = drop.before

\* dev/dev was dropped from a tree that caches it, and dev keeps its methods
C33_Witness ==
    /\ drop.done
    /\ drop.path = <<"dev", "dev">>
    /\ get_node(drop.before, <<"dev", "dev">>) # None
    /\ get_node(drop.before, <<".app">>) # None
    /\ get_node(tree, <<"dev">>) # None
    /\ get_node(tree, <<"dev">>).methods_probed
    /\ tree # drop.before

\* ---- C34 -------------------------------------------------------------------
\* C34: the assert of probe never fails: whatever the other coroutines did to
\* the tree while the probe was suspended, no probe ends with an
\* AssertionError, and once the ls the probe awaited for a path that was not
\* cached has returned successfully, the probe holds the node its lookup gave
C34_AssertNeverFails ==
    /\ pret # "AssertionError"
    /\ (pstart = None /\ pouts # <<>> /\ pouts[1] = "ok") => pheld # "none"

\* the probe of a path that was not cached got its listing after the call of
\* another coroutine had failed, and went on to list the methods
C34_Witness ==
    /\ pstart = None
    /\ pouts = <<"ok">>
    /\ ppc = "dir"
    /\ ccount = 1
    /\ cpend = {}
    /\ failures = 1
    /\ steps = 2
    /\ get_node(tree, ppath) # None

\* ---- C35 -------------------------------------------------------------------
\* C35: after any sequence of writes and changes of the offset followed by a
\* flush, the remote file of the write-buffered object has the content of the
\* remote file of the unbuffered object that did the same operations
C35_BufferedWritesLikeUnbuffered ==
    (/\ fhist # <<>>
     /\ fhist[Len(fhist)].op = "flush"
     /\ \A i \in 1..(Len(fhist) - 1) : fhist[i].op \in {"write", "seek"})
        => remotes.buf = remotes.plain

\* ---- C36 -------------------------------------------------------------------
\* C36: with the default flags, a read of the range that was just written,
\* after the offset was set back to where the write began, returns the bytes
\* written
C36_ReadSeesBufferedWrite ==
    \A i \in 1..(Len(fhist) - 2) :
        (/\ files.buf.flags = BUFFERED
         /\ fhist[i].op = "write"
         /\ fhist[i + 1].op = "seek"
         /\ fhist[i + 1].at = fhist[i].at
         /\ fhist[i + 2].op = "read"
         /\ fhist[i + 2].size = fhist[i].size)
            => fhist[i + 2].ret = fhist[i].data

\* ---- C37 -------------------------------------------------------------------
\* the items of the RI given, an item that is missing or empty taken as
\* missing
GivenItem(k) ==
    LET parts == split(eri.ri, Colon)
    IN  IF Len(parts) >= k THEN parts[k] ELSE <<>>

\* the RI with "**" for the missing path and "*" for a missing method or
\* signal, the path under the prefix
Completed ==
    LET path == IF GivenItem(1) # <<>> THEN GivenItem(1) ELSE <<"**">>
    IN  (IF eri.path_prefix.given THEN PathUnder(eri.path_prefix.parts, path) ELSE path)
            \o <<Colon>> \o (IF GivenItem(2) # <<>> THEN GivenItem(2) ELSE <<"*">>)
            \o <<Colon>> \o (IF GivenItem(3) # <<>> THEN GivenItem(3) ELSE <<"*">>)

\* C37: extend_ri keeps every item of the path:method:signal triplet that was
\* given and adds only the missing ones, "**" for the path and "*" for the
\* method and the signal; an RI with all three items comes back with the same
\* path (under the prefix), method and signal
C37_ExtendRiKeepsGivenItems ==
    (eri.done /\ \A k \in 1..Len(split(eri.ri, Colon)) : k = 1 \/ GivenItem(k) # <<>>)
        => eri.out = Completed

\* ---- C38 -------------------------------------------------------------------
\* C38: p.is_relative_to(q) is true exactly when the segments of q are the
\* first segments of p, which is exactly when p.relative_to(q) does not raise
C38_IsRelativeToIsPrefix ==
    rel.done =>
        /\ rel.is_relative_to <=> IsPrefix(rel.other, rel.self)
        /\ rel.is_relative_to <=> (rel.relative_to.raised = "no")

\* ---- C39 -------------------------------------------------------------------
\* the value the last set or rset asked for: true or false given under the
\* name of the option or to rset, false for the empty value under "no<name>"
AskedTrue ==
    oset.alias = oset.option /\ lower(oset.value) \in {"true", "t"}
AskedFalse ==
    \/ oset.alias = oset.option /\ lower(oset.value) \in {"false", "f"}
    \/ oset.alias = NoAlias(oset.option) /\ oset.value = ""

\* C39: every boolean option, the debug option included, reads true after it
\* was set (set or rset) to true, and false after it was set to false or set
\* through its "no<name>" alias with an empty value
C39_OptionReadsWhatWasSet ==
    (oset.done /\ oset.raised = "no") =>
        /\ AskedTrue => option_bool(oset.option, opts, loglevel)
        /\ AskedFalse => ~option_bool(oset.option, opts, loglevel)

\* every option but the debug option reads what was set
OptionsWithValueReadWhatWasSet ==
    (oset.done /\ oset.raised = "no" /\ oset.option # "debug") =>
        /\ AskedTrue => option_bool(oset.option, opts, loglevel)
        /\ AskedFalse => ~option_bool(oset.option, opts, loglevel)

\* the probe in flight was started by the completer or the validator
TypingProbe == ppc # "idle" /\ pcaller \in {"completer", "validator"}

\* a step of the completer or of the validator
TypingStep == comp' # comp \/ vresult' # vresult \/ (~TypingProbe /\ TypingProbe')

\* C40: while the autoprobe option is disabled, no probe of the completer or
\* of the validator is in flight, and every step of theirs starts none, issues
\* no remote call and leaves the tree as it was: the completions and the
\* verdict come from what is cached
C40_NoProbeWithoutAutoProbe ==
    /\ [](~AutoProbe => ~TypingProbe)
    /\ [][(~AutoProbe /\ TypingStep) =>
            /\ UNCHANGED <<tree, steps, last, failures, pcalls>>
            /\ ppc' = "idle"]_vars

\* with autoprobe disabled a line was completed and validated from a cache
\* that holds children of dev
C40_Witness ==
    /\ ~AutoProbe
    /\ comp.phase = "done"
    /\ ~comp.auto
    /\ \E n \in Names : <<"dev", Sep, n>> \in comp.result
    /\ vresult.done
    /\ steps > 0
    /\ ppc = "idle"
====
